---- MODULE Spec2Model ----
(***************************************************************************)
(* NFC chip identification (DangerousThings/nfc-identifier).               *)
(*                                                                         *)
(* Two state machines share this module:                                   *)
(*   Spec      one tag session: scanWithDetection has read a RawTagData    *)
(*             and detectChip runs its waterfall against the transport,    *)
(*             one action per awaited step of detectChip;                  *)
(*   SpecScan  the useScan hook: startScan / cancelScan / reset calls and  *)
(*             the asynchronous scan runs they start.                      *)
(* Byte strings are sequences of numbers, JavaScript strings are sequences *)
(* of one-character strings, undefined numbers are NoNum, undefined or     *)
(* empty strings are the empty sequence.                                   *)
(***************************************************************************)
EXTENDS Integers, Sequences, FiniteSets, TLC

VARIABLES
    rawData,      \* the RawTagData of the session (immutable per scan)
    pc,           \* position of detectChip in its waterfall
    stepLog,      \* waterfall steps evaluated so far, in order
    probeLog,     \* transport commands issued so far: <<step, command, threw>>
    transport,    \* "open" | "lost" | "released"
    fault,        \* first transport fault of the session: [kind, at]
    loc,          \* detectChip's locals (detector results, implant name, ...)
    result,       \* DetectionResult, or NoResult while running
    scanInProgress, \* useScan: scanInProgress.current
    hookState,    \* useScan: state
    hookData,     \* useScan: [tag, transponder, error]
    runs,         \* useScan: the startScan invocations, by index
    techHeld,     \* NfcManager: the technology request is held (session open)
    isMounted,    \* useScan: isMounted.current (and the effect's `mounted`)
    asyncOps,     \* useScan: initialize, cancelScan, openSettings in flight
    lateSetters,  \* useScan: state setters invoked after the unmount
    sensor,       \* detectNtag5SensorImplant: position, command log, outcome
    io            \* a detector function applied to one input: [fn, input, output]

detVars  == <<rawData, pc, stepLog, probeLog, transport, fault, loc, result>>
hookVars == <<scanInProgress, hookState, hookData, runs, techHeld,
              isMounted, asyncOps, lateSetters>>
auxVars  == <<sensor, io>>
vars     == <<rawData, pc, stepLog, probeLog, transport, fault, loc, result,
              scanInProgress, hookState, hookData, runs, techHeld,
              isMounted, asyncOps, lateSetters, sensor, io>>

(***************************************************************************)
(* Undefined values                                                        *)
(***************************************************************************)
NoNum == -1
NoStr == <<>>
NoResult == [success |-> FALSE, kind |-> "running"]
NoSensor == [pc |-> "off"]
NoIo == [fn |-> "none"]

(***************************************************************************)
(* String helpers (JavaScript string operations used by the detectors)     *)
(***************************************************************************)
HexChars == <<"0","1","2","3","4","5","6","7","8","9","A","B","C","D","E","F">>

HexByte(b) == <<HexChars[(b \div 16) + 1], HexChars[(b % 16) + 1]>>

RECURSIVE BytesToHex(_)
BytesToHex(bytes) ==
    IF Len(bytes) = 0 THEN <<>>
    ELSE IF Len(bytes) = 1 THEN HexByte(bytes[1])
    ELSE HexByte(bytes[1]) \o <<":">> \o BytesToHex(Tail(bytes))

StripSeparators(s) == SelectSeq(s, LAMBDA c : c \notin {":", " ", "-"})

Includes(s, t) ==
    \E i \in 1..(Len(s) - Len(t) + 1) : SubSeq(s, i, i + Len(t) - 1) = t

IndexOf(s, t) ==
    IF Includes(s, t)
    THEN CHOOSE i \in 1..(Len(s) - Len(t) + 1) :
            /\ SubSeq(s, i, i + Len(t) - 1) = t
            /\ \A j \in 1..(i - 1) : SubSeq(s, j, j + Len(t) - 1) # t
    ELSE 0

StartsWith(s, t) == Len(s) >= Len(t) /\ SubSeq(s, 1, Len(t)) = t

HexVal(c) == (CHOOSE i \in 1..16 : HexChars[i] = c) - 1

RECURSIVE ParseHexPairs(_)
ParseHexPairs(clean) ==
    IF Len(clean) = 0 THEN <<>>
    ELSE IF Len(clean) = 1 THEN <<HexVal(clean[1])>>
    ELSE <<HexVal(clean[1]) * 16 + HexVal(clean[2])>>
         \o ParseHexPairs(SubSeq(clean, 3, Len(clean)))

HasTech(techTypes, name) == name \in techTypes

(***************************************************************************)
(* Chip identities, families, static tables (types/detection.ts)           *)
(***************************************************************************)
ChipType ==
    {"NTAG213", "NTAG215", "NTAG216", "NTAG_I2C_1K", "NTAG_I2C_2K",
     "NTAG_I2C_PLUS_1K", "NTAG_I2C_PLUS_2K", "NTAG5_LINK", "NTAG5_BOOST",
     "NTAG5_SWITCH", "NTAG413_DNA", "NTAG424_DNA", "NTAG424_DNA_TT",
     "NTAG_UNKNOWN", "MIFARE_CLASSIC_1K", "MIFARE_CLASSIC_4K",
     "MIFARE_CLASSIC_MINI", "DESFIRE_EV1", "DESFIRE_EV2", "DESFIRE_EV3",
     "DESFIRE_LIGHT", "DESFIRE_UNKNOWN", "MIFARE_PLUS_S", "MIFARE_PLUS_X",
     "MIFARE_PLUS_SE", "MIFARE_PLUS_EV1", "MIFARE_PLUS", "ULTRALIGHT",
     "ULTRALIGHT_C", "ULTRALIGHT_EV1", "ULTRALIGHT_NANO", "ULTRALIGHT_AES",
     "SLIX", "SLIX2", "SLIX_S", "SLIX_L", "ICODE_DNA", "ISO15693_UNKNOWN",
     "JCOP4", "JAVACARD_UNKNOWN", "ISO14443A_UNKNOWN", "ISO14443B_UNKNOWN",
     "UNKNOWN"}

NoChip == "NO_CHIP"

\* type.startsWith(prefix), over the closed enumeration
Ntag5Types      == {"NTAG5_LINK", "NTAG5_BOOST", "NTAG5_SWITCH"}
NtagTypes       == {"NTAG213", "NTAG215", "NTAG216", "NTAG_I2C_1K",
                    "NTAG_I2C_2K", "NTAG_I2C_PLUS_1K", "NTAG_I2C_PLUS_2K",
                    "NTAG413_DNA", "NTAG424_DNA", "NTAG424_DNA_TT",
                    "NTAG_UNKNOWN"} \cup Ntag5Types
UltralightTypes == {"ULTRALIGHT", "ULTRALIGHT_C", "ULTRALIGHT_EV1",
                    "ULTRALIGHT_NANO", "ULTRALIGHT_AES"}
ClassicTypes    == {"MIFARE_CLASSIC_1K", "MIFARE_CLASSIC_4K",
                    "MIFARE_CLASSIC_MINI"}
DesfireTypes    == {"DESFIRE_EV1", "DESFIRE_EV2", "DESFIRE_EV3",
                    "DESFIRE_LIGHT", "DESFIRE_UNKNOWN"}
PlusTypes       == {"MIFARE_PLUS_S", "MIFARE_PLUS_X", "MIFARE_PLUS_SE",
                    "MIFARE_PLUS_EV1", "MIFARE_PLUS"}
Iso15693Types   == {"SLIX", "SLIX2", "SLIX_S", "SLIX_L", "ICODE_DNA",
                    "ISO15693_UNKNOWN"}
JavaCardTypes   == {"JCOP4", "JAVACARD_UNKNOWN"}

NoFamily == "NO_FAMILY"

\* A family lookup that answers nothing when no prefix matches
getChipFamily_Partial(type) ==
    IF type \in Ntag5Types THEN "ISO15693"
    ELSE IF type \in NtagTypes THEN "NTAG"
    ELSE IF type \in UltralightTypes THEN "NTAG"
    ELSE IF type \in ClassicTypes THEN "MIFARE_CLASSIC"
    ELSE IF type \in DesfireTypes THEN "MIFARE_DESFIRE"
    ELSE IF type \in PlusTypes THEN "MIFARE_PLUS"
    ELSE IF type \in Iso15693Types THEN "ISO15693"
    ELSE IF type \in JavaCardTypes THEN "JAVACARD"
    ELSE NoFamily

getChipFamily(type) ==
    IF type \in Ntag5Types THEN "ISO15693"
    ELSE IF type \in NtagTypes THEN "NTAG"
    ELSE IF type \in UltralightTypes THEN "NTAG"
    ELSE IF type \in ClassicTypes THEN "MIFARE_CLASSIC"
    ELSE IF type \in DesfireTypes THEN "MIFARE_DESFIRE"
    ELSE IF type \in PlusTypes THEN "MIFARE_PLUS"
    ELSE IF type \in Iso15693Types THEN "ISO15693"
    ELSE IF type \in JavaCardTypes THEN "JAVACARD"
    ELSE "UNKNOWN"

CloneableTypes ==
    {"NTAG213", "NTAG215", "NTAG216", "NTAG_I2C_1K", "NTAG_I2C_2K",
     "NTAG_I2C_PLUS_1K", "NTAG_I2C_PLUS_2K", "NTAG_UNKNOWN",
     "MIFARE_CLASSIC_1K", "MIFARE_CLASSIC_4K", "MIFARE_CLASSIC_MINI",
     "ULTRALIGHT", "ULTRALIGHT_C", "ULTRALIGHT_EV1", "ULTRALIGHT_NANO",
     "SLIX", "SLIX2", "SLIX_S", "SLIX_L", "ISO15693_UNKNOWN"}

CHIP_CLONEABILITY(type) == type \in CloneableTypes

NoNote == "NO_NOTE"

\* CHIP_CLONEABILITY[type].note
CHIP_CLONEABILITY_NOTE(type) ==
    IF type \in {"NTAG_I2C_1K", "NTAG_I2C_2K", "NTAG_I2C_PLUS_1K",
                 "NTAG_I2C_PLUS_2K"}
    THEN "I2C interface not cloneable"
    ELSE IF type \in Ntag5Types
    THEN "Password and AES mutual authentication protect data access"
    ELSE IF type \in {"NTAG413_DNA", "NTAG424_DNA"}
    THEN "AES-128 authentication and SUN messaging prevent cloning"
    ELSE IF type = "NTAG424_DNA_TT"
    THEN "AES-128 authentication and tamper detection prevent cloning"
    ELSE IF type \in {"NTAG_UNKNOWN", "ISO15693_UNKNOWN"}
    THEN "May require verification"
    ELSE IF type \in ClassicTypes
    THEN "Requires key knowledge; Android only for sector operations"
    ELSE IF type \in DesfireTypes
    THEN "Cryptographic protection prevents cloning"
    ELSE IF type \in PlusTypes
    THEN "AES cryptographic protection prevents cloning"
    ELSE IF type = "ULTRALIGHT_C"
    THEN "3DES protection may require key knowledge"
    ELSE IF type = "ULTRALIGHT_AES"
    THEN "AES authentication prevents cloning without keys"
    ELSE IF type = "ICODE_DNA"
    THEN "Cryptographic authentication prevents cloning"
    ELSE IF type \in JavaCardTypes
    THEN "Secure element prevents cloning"
    ELSE IF type \in {"ISO14443A_UNKNOWN", "ISO14443B_UNKNOWN", "UNKNOWN"}
    THEN "Unknown chip - cannot determine cloneability"
    ELSE NoNote

CHIP_MEMORY_SIZES(type) ==
    CASE type = "NTAG213" -> 144
      [] type = "NTAG215" -> 504
      [] type = "NTAG216" -> 888
      [] type = "NTAG_I2C_1K" -> 888
      [] type = "NTAG_I2C_2K" -> 1912
      [] type = "NTAG_I2C_PLUS_1K" -> 888
      [] type = "NTAG_I2C_PLUS_2K" -> 1912
      [] type = "NTAG5_LINK" -> 496
      [] type = "NTAG5_BOOST" -> 2000
      [] type = "NTAG5_SWITCH" -> 256
      [] type = "NTAG413_DNA" -> 160
      [] type = "NTAG424_DNA" -> 416
      [] type = "NTAG424_DNA_TT" -> 416
      [] type = "MIFARE_CLASSIC_1K" -> 1024
      [] type = "MIFARE_CLASSIC_4K" -> 4096
      [] type = "MIFARE_CLASSIC_MINI" -> 320
      [] type = "ULTRALIGHT" -> 48
      [] type = "ULTRALIGHT_C" -> 144
      [] type = "ULTRALIGHT_EV1" -> 128
      [] type = "ULTRALIGHT_NANO" -> 48
      [] type = "ULTRALIGHT_AES" -> 540
      [] OTHER -> NoNum

Confidence == {"high", "medium", "low"}

ConfRank(c) == CASE c = "high" -> 3 [] c = "medium" -> 2 [] OTHER -> 1

(***************************************************************************)
(* MIFARE Classic detector and SAK-swap analyzer (mifare.ts)               *)
(***************************************************************************)
ALL_CLASSIC_1K_SAKS == {\H08, \H28, \H88, \H01}
ALL_CLASSIC_4K_SAKS == {\H18, \H38, \H98, \H19}
CLASSIC_MINI_SAK    == {\H09}

detectMifareClassic(sak) ==
    IF sak \in ALL_CLASSIC_1K_SAKS
    THEN [success |-> TRUE, chipType |-> "MIFARE_CLASSIC_1K",
          memorySize |-> CHIP_MEMORY_SIZES("MIFARE_CLASSIC_1K")]
    ELSE IF sak \in ALL_CLASSIC_4K_SAKS
    THEN [success |-> TRUE, chipType |-> "MIFARE_CLASSIC_4K",
          memorySize |-> CHIP_MEMORY_SIZES("MIFARE_CLASSIC_4K")]
    ELSE IF sak \in CLASSIC_MINI_SAK
    THEN [success |-> TRUE, chipType |-> "MIFARE_CLASSIC_MINI",
          memorySize |-> CHIP_MEMORY_SIZES("MIFARE_CLASSIC_MINI")]
    ELSE [success |-> FALSE, chipType |-> NoChip, memorySize |-> NoNum]

isMifareClassicSak(sak) ==
    sak \in ALL_CLASSIC_1K_SAKS \cup ALL_CLASSIC_4K_SAKS \cup CLASSIC_MINI_SAK

\* (sak & 0x20) !== 0
hasIsoDepCapability(sak) == (sak \div 32) % 2 = 1

NoSwap == [hasSakSwap |-> FALSE, swapType |-> "none", confidence |-> "high"]

Swap(type, conf) == [hasSakSwap |-> TRUE, swapType |-> type, confidence |-> conf]

detectSakSwap(sak, atqa, historicalBytes) ==
    IF /\ sak \in {\H08, \H18}
       /\ historicalBytes # NoStr
       /\ \/ Includes(historicalBytes, <<"C", "1">>)
          \/ Includes(historicalBytes, <<"8", "0", ":", "0", "2">>)
    THEN Swap("mifare_plus_sl1", "medium")
    ELSE IF sak = \H28
    THEN Swap("desfire_with_classic", "high")
    ELSE IF atqa # NoStr /\ atqa = <<"0", "4", ":", "0", "0">> /\ sak \in {\H08, \H18}
    THEN Swap("magic_card", "medium")
    ELSE IF /\ atqa # NoStr
            /\ \/ sak = \H08 /\ atqa = <<"0", "0", ":", "0", "2">>
               \/ sak = \H18 /\ atqa = <<"0", "0", ":", "0", "4">>
    THEN Swap("magic_card", "low")
    ELSE IF sak \in {\H10, \H11}
    THEN Swap("mifare_plus_sl1", "high")
    ELSE IF sak = \H20 /\ Includes(historicalBytes, <<"C", "1">>)
    THEN Swap("mifare_plus_sl1", "medium")
    ELSE NoSwap

(***************************************************************************)
(* createTransponder (detector.ts)                                         *)
(***************************************************************************)
NoSwapInfo == [hasSakSwap |-> FALSE, swapType |-> "absent", confidence |-> "none"]

\* A createTransponder that lets the analyzer's verdict replace the identity
createTransponder_Overriding(type, raw, memorySize, confidence, implantName) ==
    LET swap == IF raw.sak # NoNum
                THEN detectSakSwap(raw.sak, raw.atqa, raw.historicalBytes)
                ELSE NoSwapInfo
        seen == IF swap.hasSakSwap THEN "MIFARE_PLUS" ELSE type
    IN  [type |-> seen,
         family |-> getChipFamily(seen),
         memorySize |-> IF memorySize # NoNum THEN memorySize
                        ELSE CHIP_MEMORY_SIZES(seen),
         isCloneable |-> CHIP_CLONEABILITY(seen),
         cloneabilityNote |-> CHIP_CLONEABILITY_NOTE(seen),
         sakSwapInfo |-> swap,
         implantName |-> implantName,
         confidence |-> IF swap.hasSakSwap THEN swap.confidence ELSE confidence]

\* A createTransponder that takes a low-confidence chip for not cloneable
createTransponder_CloneableIfSure(type, raw, memorySize, confidence, implantName) ==
    [type |-> type,
     family |-> getChipFamily(type),
     memorySize |-> IF memorySize # NoNum THEN memorySize
                    ELSE CHIP_MEMORY_SIZES(type),
     isCloneable |-> CHIP_CLONEABILITY(type) /\ confidence # "low",
     cloneabilityNote |-> CHIP_CLONEABILITY_NOTE(type),
     sakSwapInfo |-> IF raw.sak # NoNum
                     THEN detectSakSwap(raw.sak, raw.atqa, raw.historicalBytes)
                     ELSE NoSwapInfo,
     implantName |-> implantName,
     confidence |-> confidence]

\* A createTransponder that never runs the analyzer
createTransponder_Unanalyzed(type, raw, memorySize, confidence, implantName) ==
    [type |-> type,
     family |-> getChipFamily(type),
     memorySize |-> IF memorySize # NoNum THEN memorySize
                    ELSE CHIP_MEMORY_SIZES(type),
     isCloneable |-> CHIP_CLONEABILITY(type),
     cloneabilityNote |-> CHIP_CLONEABILITY_NOTE(type),
     sakSwapInfo |-> NoSwapInfo,
     implantName |-> implantName,
     confidence |-> confidence]

createTransponder(type, raw, memorySize, confidence, implantName) ==
    [type |-> type,
     family |-> getChipFamily(type),
     memorySize |-> IF memorySize # NoNum THEN memorySize
                    ELSE CHIP_MEMORY_SIZES(type),
     isCloneable |-> CHIP_CLONEABILITY(type),
     cloneabilityNote |-> CHIP_CLONEABILITY_NOTE(type),
     sakSwapInfo |-> IF raw.sak # NoNum
                     THEN detectSakSwap(raw.sak, raw.atqa, raw.historicalBytes)
                     ELSE NoSwapInfo,
     implantName |-> implantName,
     confidence |-> confidence]

(***************************************************************************)
(* Command codec (nfc/commands.ts)                                         *)
(***************************************************************************)
\* A codec that takes only a status high byte of 0x90 for success
parseApduResponse_Only90(response) ==
    IF Len(response) < 2
    THEN [data |-> <<>>, sw1 |-> 0, sw2 |-> 0, isSuccess |-> FALSE]
    ELSE [data |-> SubSeq(response, 1, Len(response) - 2),
          sw1 |-> response[Len(response) - 1],
          sw2 |-> response[Len(response)],
          isSuccess |-> response[Len(response) - 1] = \H90]

parseApduResponse(response) ==
    IF Len(response) < 2
    THEN [data |-> <<>>, sw1 |-> 0, sw2 |-> 0, isSuccess |-> FALSE]
    ELSE [data |-> SubSeq(response, 1, Len(response) - 2),
          sw1 |-> response[Len(response) - 1],
          sw2 |-> response[Len(response)],
          isSuccess |-> response[Len(response) - 1] \in {\H90, \H91}]

\* A transceive outcome: the call threw, or returned these bytes
Threw == [threw |-> TRUE, bytes |-> <<>>]
Reply(bytes) == [threw |-> FALSE, bytes |-> bytes]

(***************************************************************************)
(* NTAG / Ultralight detector (ntag.ts)                                    *)
(***************************************************************************)
ULTRALIGHT_STORAGE_SIZES(code) ==
    CASE code = \H06 -> [type |-> "ULTRALIGHT", size |-> 48]
      [] code = \H0A -> [type |-> "ULTRALIGHT_NANO", size |-> 48]
      [] code = \H0B -> [type |-> "ULTRALIGHT_C", size |-> 144]
      [] code = \H0E -> [type |-> "ULTRALIGHT_EV1", size |-> 48]
      [] code = \H0F -> [type |-> "ULTRALIGHT_EV1", size |-> 128]
      [] code = \H15 -> [type |-> "ULTRALIGHT_AES", size |-> 540]
      [] OTHER -> [type |-> NoChip, size |-> NoNum]

NTAG_STORAGE_SIZES(code) ==
    CASE code = \H06 -> [type |-> "NTAG213", size |-> 48]
      [] code = \H0A -> [type |-> "NTAG213", size |-> 128]
      [] code = \H0F -> [type |-> "NTAG213", size |-> 144]
      [] code = \H11 -> [type |-> "NTAG215", size |-> 504]
      [] code = \H13 -> [type |-> "NTAG216", size |-> 888]
      [] code = \H15 -> [type |-> "NTAG_I2C_2K", size |-> 1912]
      [] OTHER -> [type |-> NoChip, size |-> NoNum]

NTAG_I2C_STORAGE_SIZES(code) ==
    CASE code = \H13 -> [type |-> "NTAG_I2C_1K", size |-> 888]
      [] code = \H15 -> [type |-> "NTAG_I2C_2K", size |-> 1912]
      [] OTHER -> [type |-> NoChip, size |-> NoNum]

\* Detector results carry `via`: how the identity was resolved
\*   "exact"    an exact table entry matched the version / IC-reference code
\*   "range"    the table's numeric-range inference
\*   "memory"   block-count / memory-size bands
\*   "ats"      ATS / historical-byte / SAK-ATQA pattern
\*   "sak"      SAK or capacity hint alone
\*   "tech"     technology (capability) set alone
\*   "applet"   presence of an applet
\*   "unknown"  the table's explicit unknown marker
\*   "none"     the detector failed
NtagResult(ok, type, size, via) ==
    [success |-> ok, chipType |-> type, memorySize |-> size, via |-> via]

detectNtag(resp) ==
    IF resp.threw THEN NtagResult(FALSE, NoChip, NoNum, "none")
    ELSE IF Len(resp.bytes) < 8 THEN NtagResult(FALSE, NoChip, NoNum, "none")
    ELSE LET vendorId       == resp.bytes[2]
             productType    == resp.bytes[3]
             productSubtype == resp.bytes[4]
             storageSize    == resp.bytes[7]
         IN  IF vendorId # \H04
             THEN NtagResult(TRUE, "NTAG_UNKNOWN", NoNum, "unknown")
             ELSE IF productType = \H03
             THEN LET info == ULTRALIGHT_STORAGE_SIZES(storageSize)
                  IN  IF info.type # NoChip
                      THEN NtagResult(TRUE, info.type, info.size, "exact")
                      ELSE NtagResult(TRUE, "ULTRALIGHT", NoNum, "unknown")
             ELSE IF productType = \H05
             THEN LET info == NTAG_I2C_STORAGE_SIZES(storageSize)
                  IN  IF info.type = NoChip
                      THEN NtagResult(TRUE, "NTAG_UNKNOWN", NoNum, "unknown")
                      ELSE IF productSubtype = \H02
                      THEN NtagResult(TRUE,
                               IF info.type = "NTAG_I2C_1K"
                               THEN "NTAG_I2C_PLUS_1K" ELSE "NTAG_I2C_PLUS_2K",
                               info.size, "exact")
                      ELSE NtagResult(TRUE, info.type, info.size, "exact")
             ELSE IF productType = \H04
             THEN LET info == NTAG_STORAGE_SIZES(storageSize)
                  IN  IF info.type # NoChip
                      THEN NtagResult(TRUE, info.type, info.size, "exact")
                      ELSE NtagResult(TRUE, "NTAG_UNKNOWN", NoNum, "unknown")
             ELSE NtagResult(TRUE, "NTAG_UNKNOWN", NoNum, "unknown")

mightBeNtag(sak, techTypes) ==
    IF sak # NoNum /\ sak # 0 THEN FALSE
    ELSE IF ~HasTech(techTypes, "NfcA") THEN FALSE
    ELSE IF HasTech(techTypes, "IsoDep") THEN FALSE
    ELSE TRUE

(***************************************************************************)
(* DESFire / NTAG DNA detector (desfire.ts)                                *)
(***************************************************************************)
DESFIRE_VERSION_MAP(hwMajor) ==
    IF hwMajor \in {\H00, \H01} THEN "DESFIRE_EV1"
    ELSE IF hwMajor \in {\H10, \H11, \H12, \H20, \H21, \H22} THEN "DESFIRE_EV2"
    ELSE IF hwMajor \in {\H30, \H31, \H32, \H33, \H34, \H35, \H36}
    THEN "DESFIRE_EV3"
    ELSE NoChip

DESFIRE_STORAGE_SIZES(code) ==
    CASE code = \H10 -> 256
      [] code = \H12 -> 512
      [] code = \H13 -> 888
      [] code = \H14 -> 1024
      [] code = \H15 -> 1912
      [] code = \H16 -> 2048
      [] code = \H18 -> 4096
      [] code = \H1A -> 8192
      [] code = \H1C -> 16384
      [] code = \H1E -> 32768
      [] OTHER -> NoNum

\* Range inference for a hardware major version the table does not list
DesfireRangeInference(hwMajor) ==
    IF hwMajor <= \H01 THEN "DESFIRE_EV1"
    ELSE IF hwMajor >= \H10 /\ hwMajor < \H30 THEN "DESFIRE_EV2"
    ELSE IF hwMajor >= \H30 THEN "DESFIRE_EV3"
    ELSE "DESFIRE_UNKNOWN"

DesfireResult(ok, type, storage, via, continued, swMajor) ==
    [success |-> ok, chipType |-> type, storageSize |-> storage, via |-> via,
     continued |-> continued, softwareMajor |-> swMajor]

DesfireFailed == DesfireResult(FALSE, NoChip, NoNum, "none", FALSE, 0)

\* A chip type choice that tells the DNA variants apart by storage size
DesfireChipType_ByStorage(hwProductType, hwSubtype, hwMajor, hwStorageSize) ==
    IF hwProductType = \H04
    THEN IF hwSubtype = \H04 THEN <<"NTAG424_DNA_TT", "exact">>
         ELSE IF hwStorageSize <= \H0E THEN <<"NTAG413_DNA", "exact">>
         ELSE <<"NTAG424_DNA", "exact">>
    ELSE IF hwProductType = \H05
    THEN IF hwStorageSize = \H13
         THEN <<IF hwSubtype = \H02 THEN "NTAG_I2C_PLUS_1K" ELSE "NTAG_I2C_1K",
                "exact">>
         ELSE IF hwStorageSize = \H15
         THEN <<IF hwSubtype = \H02 THEN "NTAG_I2C_PLUS_2K" ELSE "NTAG_I2C_2K",
                "exact">>
         ELSE <<"NTAG_UNKNOWN", "unknown">>
    ELSE IF hwProductType = \H08
    THEN <<"DESFIRE_LIGHT", "exact">>
    ELSE IF hwProductType = \H01
    THEN IF DESFIRE_VERSION_MAP(hwMajor) # NoChip
         THEN <<DESFIRE_VERSION_MAP(hwMajor), "exact">>
         ELSE <<DesfireRangeInference(hwMajor),
                IF DesfireRangeInference(hwMajor) = "DESFIRE_UNKNOWN"
                THEN "unknown" ELSE "range">>
    ELSE <<"DESFIRE_UNKNOWN", "unknown">>

\* The chip type chosen from the first frame's product type, subtype,
\* hardware major version and storage size: <<type, via>>
DesfireChipType(hwProductType, hwSubtype, hwMajor, hwStorageSize) ==
    IF hwProductType = \H04
    THEN CASE hwSubtype = \H02 -> <<"NTAG413_DNA", "exact">>
           [] hwSubtype = \H04 -> <<"NTAG424_DNA_TT", "exact">>
           [] hwSubtype = \H05 -> <<"NTAG424_DNA", "exact">>
           [] OTHER -> <<"NTAG424_DNA", "unknown">>
    ELSE IF hwProductType = \H05
    THEN IF hwStorageSize = \H13
         THEN <<IF hwSubtype = \H02 THEN "NTAG_I2C_PLUS_1K" ELSE "NTAG_I2C_1K",
                "exact">>
         ELSE IF hwStorageSize = \H15
         THEN <<IF hwSubtype = \H02 THEN "NTAG_I2C_PLUS_2K" ELSE "NTAG_I2C_2K",
                "exact">>
         ELSE <<"NTAG_UNKNOWN", "unknown">>
    ELSE IF hwProductType = \H08
    THEN <<"DESFIRE_LIGHT", "exact">>
    ELSE IF hwProductType = \H01
    THEN IF DESFIRE_VERSION_MAP(hwMajor) # NoChip
         THEN <<DESFIRE_VERSION_MAP(hwMajor), "exact">>
         ELSE <<DesfireRangeInference(hwMajor),
                IF DesfireRangeInference(hwMajor) = "DESFIRE_UNKNOWN"
                THEN "unknown" ELSE "range">>
    ELSE <<"DESFIRE_UNKNOWN", "unknown">>

\* The continuation request is sent when either status byte is 0xAF
DesfireWantsContinuation(parsed1) == parsed1.sw1 = \HAF \/ parsed1.sw2 = \HAF

\* r1: outcome of GET_VERSION; r2: outcome of the continuation, if it is sent
detectDesfire(r1, r2) ==
    IF r1.threw THEN DesfireFailed
    ELSE LET parsed1 == parseApduResponse(r1.bytes)
         IN  IF ~parsed1.isSuccess /\ parsed1.sw1 # \HAF THEN DesfireFailed
             ELSE IF Len(parsed1.data) < 7 THEN DesfireFailed
             ELSE IF parsed1.data[1] # \H04
             THEN DesfireResult(TRUE, "DESFIRE_UNKNOWN", NoNum, "unknown",
                                FALSE, 0)
             ELSE LET cont    == DesfireWantsContinuation(parsed1)
                      parsed2 == parseApduResponse(r2.bytes)
                      swMajor == IF cont /\ ~r2.threw /\ Len(parsed2.data) >= 7
                                 THEN parsed2.data[4] ELSE 0
                      tv      == DesfireChipType(parsed1.data[2], parsed1.data[3],
                                                 parsed1.data[4], parsed1.data[6])
                  IN  DesfireResult(TRUE, tv[1],
                                    DESFIRE_STORAGE_SIZES(parsed1.data[6]),
                                    tv[2], cont, swMajor)

AsciiDESFire == <<\H44, \H45, \H53, \H46, \H69, \H72, \H65>>
AsciiDESFIRE == <<\H44, \H45, \H53, \H46, \H49, \H52, \H45>>

AtsResult(ok, type) == [success |-> ok, chipType |-> type]

detectDesfireFromAts(historicalBytes, ats, sak, atqa) ==
    LET histBytes == ParseHexPairs(StripSeparators(historicalBytes))
        atqaClean == StripSeparators(atqa)
    IN  IF Len(histBytes) >= 5 /\ histBytes[1] = \H75 /\ histBytes[2] = \H77
        THEN AtsResult(TRUE, "DESFIRE_UNKNOWN")
        ELSE IF Len(histBytes) >= 3 /\ histBytes[1] = \H06
        THEN AtsResult(TRUE, "DESFIRE_UNKNOWN")
        ELSE IF Len(histBytes) >= 4 /\ histBytes[1] = \H80 /\ histBytes[2] = \H77
        THEN AtsResult(TRUE, "NTAG424_DNA")
        ELSE IF Includes(histBytes, AsciiDESFire) \/ Includes(histBytes, AsciiDESFIRE)
        THEN AtsResult(TRUE, "DESFIRE_UNKNOWN")
        ELSE IF sak = \H20 /\ atqa # NoStr
                /\ atqaClean \in {<<"0","3","4","4">>, <<"4","4","0","3">>}
        THEN AtsResult(TRUE, "DESFIRE_UNKNOWN")
        ELSE IF sak = \H20 /\ atqa # NoStr
                /\ atqaClean \in {<<"0","0","0","4">>, <<"0","4","0","0">>}
        THEN AtsResult(TRUE, "NTAG424_DNA")
        ELSE AtsResult(FALSE, NoChip)

(***************************************************************************)
(* JavaCard detector (javacard.ts)                                         *)
(***************************************************************************)
NoCplc == [present |-> FALSE, icFabricator |-> 0, osId |-> 0]

parseCPLC(data) ==
    LET cplcData == IF Len(data) >= 2 /\ data[1] = \H9F /\ data[2] = \H7F
                    THEN SubSeq(data, 4, Len(data)) ELSE data
    IN  IF Len(cplcData) < 42 THEN NoCplc
        ELSE [present |-> TRUE,
              icFabricator |-> cplcData[1] * 256 + cplcData[2],
              osId |-> cplcData[5] * 256 + cplcData[6]]

NoName == ""

\* JCOP_OS_PATTERNS, first match of (osId & mask) = pattern
identifyJcopVersion(osId) ==
    IF osId = \H4791 THEN "JCOP4 J3R180"
    ELSE IF osId \div 256 = \H47 THEN "JCOP4"
    ELSE IF osId \div 128 = \H4680 \div 128 THEN "JCOP3"
    ELSE IF osId \div 256 = \H46 THEN "JCOP2.x"
    ELSE NoName

\* osName?.includes('JCOP4')
OsNameIncludesJcop4(osName) == osName \in {"JCOP4 J3R180", "JCOP4"}

\* The SELECT outcomes of a card: AID name -> "ok" | "no" | "threw"
AppletAids  == <<"javacardMemory", "openPgp", "fido", "fidesmo", "ppse">>
AppletNames == <<"JavaCard Memory", "OpenPGP", "FIDO/U2F", "Fidesmo",
                 "Payment (PPSE)">>
NetworkAids  == <<"visaCredit", "mastercard", "amex", "discover", "maestro">>
NetworkNames == <<"Visa", "Mastercard", "American Express", "Discover",
                  "Maestro">>

\* probePaymentNetworks: the first network whose SELECT succeeds
probePaymentNetworks(sel) ==
    IF \E i \in 1..5 : sel[NetworkAids[i]] = "ok"
    THEN <<NetworkNames[CHOOSE i \in 1..5 :
                /\ sel[NetworkAids[i]] = "ok"
                /\ \A j \in 1..(i - 1) : sel[NetworkAids[j]] # "ok"]>>
    ELSE <<>>

RECURSIVE ProbeAppletsFrom(_, _)
ProbeAppletsFrom(sel, i) ==
    IF i > 5 THEN <<>>
    ELSE (IF sel[AppletAids[i]] = "ok"
          THEN <<AppletNames[i]>>
               \o (IF AppletAids[i] = "ppse" THEN probePaymentNetworks(sel)
                   ELSE <<>>)
          ELSE <<>>) \o ProbeAppletsFrom(sel, i + 1)

probeApplets(sel) == ProbeAppletsFrom(sel, 1)

SeqIncludes(seq, x) == \E i \in 1..Len(seq) : seq[i] = x

JavaCardResult(ok, type, cplc, osName, applets, via) ==
    [success |-> ok, chipType |-> type, cplc |-> cplc, osName |-> osName,
     installedApplets |-> applets, via |-> via]

JavaCardFailed == JavaCardResult(FALSE, NoChip, NoCplc, NoName, <<>>, "none")

\* A detector for which the Fidesmo applet says nothing about the platform
detectJavaCard_IgnoringFidesmo(cm, cplcResp, sel) ==
    LET cardManagerSelected == ~cm.threw /\ parseApduResponse(cm.bytes).isSuccess
        cplcParsed == parseApduResponse(cplcResp.bytes)
        cplc == IF cardManagerSelected /\ ~cplcResp.threw
                   /\ cplcParsed.isSuccess /\ Len(cplcParsed.data) >= 20
                THEN parseCPLC(cplcParsed.data) ELSE NoCplc
        osName0 == IF cplc.present THEN identifyJcopVersion(cplc.osId)
                   ELSE NoName
        installedApplets == probeApplets(sel)
    IN  IF cplc.present /\ cplc.icFabricator = \H4790
           /\ OsNameIncludesJcop4(osName0)
        THEN JavaCardResult(TRUE, "JCOP4", cplc, osName0, installedApplets,
                            "exact")
        ELSE IF SeqIncludes(installedApplets, "JavaCard Memory")
        THEN JavaCardResult(TRUE, "JCOP4", cplc,
                 IF osName0 = NoName THEN "JCOP4 (VivoKey)" ELSE osName0,
                 installedApplets, "applet")
        ELSE IF ~cplc.present /\ Len(installedApplets) = 0
        THEN JavaCardFailed
        ELSE JavaCardResult(TRUE, "JAVACARD_UNKNOWN", cplc,
                 IF osName0 # NoName THEN osName0
                 ELSE IF cplc.present THEN "Unknown OS" ELSE "Unknown",
                 installedApplets, "unknown")

\* cm: outcome of SELECT card manager; cplcResp: outcome of GET CPLC (sent
\* only when the card manager was selected); sel: applet SELECT outcomes
detectJavaCard(cm, cplcResp, sel) ==
    LET cardManagerSelected == ~cm.threw /\ parseApduResponse(cm.bytes).isSuccess
        cplcParsed == parseApduResponse(cplcResp.bytes)
        cplc == IF cardManagerSelected /\ ~cplcResp.threw
                   /\ cplcParsed.isSuccess /\ Len(cplcParsed.data) >= 20
                THEN parseCPLC(cplcParsed.data) ELSE NoCplc
        osName0 == IF cplc.present THEN identifyJcopVersion(cplc.osId)
                   ELSE NoName
        installedApplets == probeApplets(sel)
    IN  IF cplc.present /\ cplc.icFabricator = \H4790
           /\ OsNameIncludesJcop4(osName0)
        THEN JavaCardResult(TRUE, "JCOP4", cplc, osName0, installedApplets,
                            "exact")
        ELSE IF SeqIncludes(installedApplets, "JavaCard Memory")
        THEN JavaCardResult(TRUE, "JCOP4", cplc,
                 IF osName0 = NoName THEN "JCOP4 (VivoKey)" ELSE osName0,
                 installedApplets, "applet")
        ELSE IF SeqIncludes(installedApplets, "Fidesmo") /\ ~cplc.present
        THEN JavaCardResult(TRUE, "JCOP4", cplc, "JCOP4 (Fidesmo)",
                            installedApplets, "applet")
        ELSE IF ~cplc.present /\ Len(installedApplets) = 0
        THEN JavaCardFailed
        ELSE JavaCardResult(TRUE, "JAVACARD_UNKNOWN", cplc,
                 IF osName0 # NoName THEN osName0
                 ELSE IF cplc.present THEN "Unknown OS" ELSE "Unknown",
                 installedApplets, "unknown")

S4A434F50 == <<"4","A","4","3","4","F","5","0">>

mightBeJavaCard(historicalBytes, ats) ==
    IF historicalBytes = NoStr /\ ats = NoStr THEN FALSE
    ELSE LET checkStr == IF historicalBytes # NoStr THEN historicalBytes ELSE ats
         IN  \/ Includes(checkStr, <<"4","A",":","4","3",":","4","F",":","5","0">>)
             \/ Includes(checkStr, S4A434F50)
             \/ Includes(checkStr, <<"8","0",":","3","1">>)
             \/ Includes(checkStr, <<"8","0",":","7","1">>)
             \/ (ats # NoStr /\ StartsWith(ats, <<"7","8">>))

detectJavaCardFromAts(historicalBytes, ats) ==
    IF historicalBytes = NoStr /\ ats = NoStr THEN AtsResult(FALSE, NoChip)
    ELSE LET checkStr  == IF historicalBytes # NoStr THEN historicalBytes ELSE ats
             cleanStr  == StripSeparators(checkStr)
             afterJcop == SubSeq(cleanStr, IndexOf(cleanStr, S4A434F50) + 8,
                                 Len(cleanStr))
             histBytes == ParseHexPairs(cleanStr)
         IN  IF Includes(cleanStr, S4A434F50)
             THEN IF StartsWith(afterJcop, <<"3","4">>)
                     \/ Includes(afterJcop, <<"4","A","3","3">>)
                  THEN AtsResult(TRUE, "JCOP4")
                  ELSE AtsResult(TRUE, "JAVACARD_UNKNOWN")
             ELSE IF Includes(cleanStr, <<"8","0","3","1">>)
                     \/ Includes(cleanStr, <<"8","0","7","1">>)
             THEN AtsResult(TRUE, "JAVACARD_UNKNOWN")
             ELSE IF Len(histBytes) >= 3 /\ histBytes[1] = \H80
                     /\ histBytes[2] \in {\H31, \H71}
             THEN AtsResult(TRUE, "JAVACARD_UNKNOWN")
             ELSE IF Len(histBytes) >= 5 /\ histBytes[1] = \H00
             THEN AtsResult(TRUE, "JAVACARD_UNKNOWN")
             ELSE AtsResult(FALSE, NoChip)

(***************************************************************************)
(* ISO 15693 detector (iso15693.ts)                                        *)
(***************************************************************************)
NXP_IC_MFG_CODE == 4

NXP_ISO15693_IC_REFERENCES(icRef) ==
    IF icRef \in \H01..\H03 THEN "SLIX"
    ELSE IF icRef \in {\H0A, \H0B} THEN "SLIX_S"
    ELSE IF icRef \in {\H0C, \H0D} THEN "SLIX_L"
    ELSE IF icRef \in \H14..\H1F THEN "SLIX2"
    ELSE IF icRef \in (\H24..\H27) \cup (\H90..\HAF) THEN "ICODE_DNA"
    ELSE IF icRef \in \H20..\H23 THEN "NTAG5_LINK"
    ELSE IF icRef \in \H40..\H49 THEN "NTAG5_BOOST"
    ELSE IF icRef \in \H50..\H53 THEN "NTAG5_SWITCH"
    ELSE NoChip

\* <<type, via>>; NoChip is the function's null
getIcodeTypeFromIcReference(icRef) ==
    IF NXP_ISO15693_IC_REFERENCES(icRef) # NoChip
    THEN <<NXP_ISO15693_IC_REFERENCES(icRef), "exact">>
    ELSE IF icRef >= \H01 /\ icRef <= \H09 THEN <<"SLIX", "range">>
    ELSE IF icRef >= \H0A /\ icRef <= \H13 THEN <<"SLIX_S", "range">>
    ELSE IF icRef >= \H14 /\ icRef <= \H2F THEN <<"SLIX2", "range">>
    ELSE IF icRef >= \H40 /\ icRef <= \H4F THEN <<"NTAG5_BOOST", "range">>
    ELSE IF icRef >= \H50 /\ icRef <= \H5F THEN <<"NTAG5_SWITCH", "range">>
    ELSE IF icRef >= \H90 /\ icRef <= \HBF THEN <<"ICODE_DNA", "range">>
    ELSE <<NoChip, "none">>

\* A memory identification that gives up above the SLIX2 band
identifySlixFromMemory_NoBoost(blockCount, blockSize) ==
    IF blockCount \in {NoNum, 0} \/ blockSize \in {NoNum, 0} THEN NoChip
    ELSE LET totalBytes == blockCount * blockSize
         IN  IF totalBytes <= 80 \/ blockCount <= 20 THEN "SLIX_L"
             ELSE IF totalBytes <= 128 \/ blockCount <= 32 THEN "SLIX"
             ELSE IF totalBytes <= 200 \/ blockCount <= 50 THEN "SLIX_S"
             ELSE IF totalBytes <= 400 \/ blockCount <= 100 THEN "SLIX2"
             ELSE NoChip

identifySlixFromMemory(blockCount, blockSize) ==
    IF blockCount \in {NoNum, 0} \/ blockSize \in {NoNum, 0} THEN NoChip
    ELSE LET totalBytes == blockCount * blockSize
         IN  IF totalBytes <= 80 \/ blockCount <= 20 THEN "SLIX_L"
             ELSE IF totalBytes <= 128 \/ blockCount <= 32 THEN "SLIX"
             ELSE IF totalBytes <= 200 \/ blockCount <= 50 THEN "SLIX_S"
             ELSE IF totalBytes <= 400 \/ blockCount <= 100 THEN "SLIX2"
             ELSE "NTAG5_BOOST"

\* The block-count bands that override the IC reference for NXP chips
BlockCountOverride(blocks) ==
    IF blocks <= 20 THEN "SLIX_L"
    ELSE IF blocks <= 36 THEN "SLIX"
    ELSE IF blocks <= 44 THEN "SLIX_S"
    ELSE IF blocks <= 68 THEN "ICODE_DNA"
    ELSE IF blocks <= 85 THEN "SLIX2"
    ELSE "NTAG5_BOOST"

NoUidInfo == [icManufacturer |-> NoNum, icReference |-> NoNum]

FirstIndexOf(bytes, b) ==
    IF \E i \in 1..Len(bytes) : bytes[i] = b
    THEN CHOOSE i \in 1..Len(bytes) :
            bytes[i] = b /\ \A j \in 1..(i - 1) : bytes[j] # b
    ELSE 0

parseIso15693Uid(uidBytes) ==
    IF Len(uidBytes) < 8 THEN NoUidInfo
    ELSE IF uidBytes[1] = \HE0
    THEN [icManufacturer |-> uidBytes[2], icReference |-> uidBytes[3]]
    ELSE IF uidBytes[8] = \HE0
    THEN [icManufacturer |-> uidBytes[7], icReference |-> uidBytes[6]]
    ELSE LET e0 == FirstIndexOf(uidBytes, \HE0)
         IN  IF e0 = 0
             THEN [icManufacturer |-> uidBytes[1], icReference |-> uidBytes[2]]
             ELSE IF e0 - 1 < 4
             THEN [icManufacturer |-> uidBytes[e0 + 1],
                   icReference |-> uidBytes[e0 + 2]]
             ELSE [icManufacturer |-> uidBytes[e0 - 1],
                   icReference |-> uidBytes[e0 - 2]]

Iso15693Result(ok, type, hasUid, icReference, via) ==
    [success |-> ok, chipType |-> type, hasUid |-> hasUid,
     icReference |-> icReference, via |-> via]

Iso15693Failed == Iso15693Result(FALSE, NoChip, FALSE, NoNum, "none")

\* detectIso15693Android / detectIso15693IOS: tag2 is the second getTag()
detectIso15693Platform(tag2) ==
    IF tag2.threw \/ ~tag2.present THEN Iso15693Failed
    ELSE LET parsed == parseIso15693Uid(tag2.id)
             tv     == getIcodeTypeFromIcReference(parsed.icReference)
         IN  IF Len(tag2.id) >= 8 /\ parsed.icManufacturer = NXP_IC_MFG_CODE
                /\ parsed.icReference # NoNum
             THEN IF tv[1] # NoChip
                  THEN Iso15693Result(TRUE, tv[1], TRUE, parsed.icReference,
                                      tv[2])
                  ELSE Iso15693Result(TRUE, "ISO15693_UNKNOWN", TRUE,
                                      parsed.icReference, "unknown")
             ELSE Iso15693Result(TRUE, "ISO15693_UNKNOWN", Len(tag2.id) > 0,
                                 parsed.icReference, "unknown")

\* A detector that lets a known IC reference win over the block count
detectIso15693_ByIcReference(tag, sysInfo, tag2) ==
    IF tag.threw THEN Iso15693Failed
    ELSE LET hasId  == tag.present /\ Len(tag.id) > 0
             parsed == IF hasId THEN parseIso15693Uid(tag.id) ELSE NoUidInfo
             icManufacturer == parsed.icManufacturer
             uidIcReference == parsed.icReference
             nxpOrUnknown   == icManufacturer \in {NXP_IC_MFG_CODE, NoNum}
             tvSys == getIcodeTypeFromIcReference(sysInfo.icReference)
             tvUid == getIcodeTypeFromIcReference(uidIcReference)
             fromMemory == identifySlixFromMemory(sysInfo.blockCount,
                                                  sysInfo.blockSize)
         IN  IF ~sysInfo.threw
             THEN IF sysInfo.icReference \notin {NoNum, 0}
                  THEN IF ~nxpOrUnknown
                       THEN Iso15693Result(TRUE, "ISO15693_UNKNOWN", hasId,
                                           sysInfo.icReference, "unknown")
                       ELSE IF icManufacturer = NXP_IC_MFG_CODE
                               /\ sysInfo.blockCount # NoNum
                               /\ tvSys[1] = NoChip
                       THEN Iso15693Result(TRUE,
                                BlockCountOverride(sysInfo.blockCount), hasId,
                                sysInfo.icReference, "memory")
                       ELSE IF tvSys[1] # NoChip
                       THEN Iso15693Result(TRUE, tvSys[1], hasId,
                                           sysInfo.icReference, tvSys[2])
                       ELSE Iso15693Result(TRUE, "ISO15693_UNKNOWN", hasId,
                                           sysInfo.icReference, "unknown")
                  ELSE IF nxpOrUnknown /\ fromMemory # NoChip
                  THEN Iso15693Result(TRUE, fromMemory, hasId, uidIcReference,
                                      "memory")
                  ELSE Iso15693Result(TRUE, "ISO15693_UNKNOWN", hasId, NoNum,
                                      "unknown")
             ELSE IF icManufacturer = NXP_IC_MFG_CODE
             THEN IF uidIcReference # NoNum /\ tvUid[1] # NoChip
                  THEN Iso15693Result(TRUE, tvUid[1], hasId, uidIcReference,
                                      tvUid[2])
                  ELSE Iso15693Result(TRUE, "ISO15693_UNKNOWN", hasId,
                                      uidIcReference, "unknown")
             ELSE detectIso15693Platform(tag2)

\* tag: outcome of getTag() [threw, present, id]; sysInfo: outcome of
\* GET_SYSTEM_INFO [threw, icReference, blockCount, blockSize]; tag2: the
\* platform fallback's own getTag()
detectIso15693(tag, sysInfo, tag2) ==
    IF tag.threw THEN Iso15693Failed
    ELSE LET hasId  == tag.present /\ Len(tag.id) > 0
             parsed == IF hasId THEN parseIso15693Uid(tag.id) ELSE NoUidInfo
             icManufacturer == parsed.icManufacturer
             uidIcReference == parsed.icReference
             nxpOrUnknown   == icManufacturer \in {NXP_IC_MFG_CODE, NoNum}
             tvSys == getIcodeTypeFromIcReference(sysInfo.icReference)
             tvUid == getIcodeTypeFromIcReference(uidIcReference)
             fromMemory == identifySlixFromMemory(sysInfo.blockCount,
                                                  sysInfo.blockSize)
         IN  IF ~sysInfo.threw
             THEN IF sysInfo.icReference \notin {NoNum, 0}
                  THEN IF ~nxpOrUnknown
                       THEN Iso15693Result(TRUE, "ISO15693_UNKNOWN", hasId,
                                           sysInfo.icReference, "unknown")
                       ELSE IF icManufacturer = NXP_IC_MFG_CODE
                               /\ sysInfo.blockCount # NoNum
                       THEN Iso15693Result(TRUE,
                                BlockCountOverride(sysInfo.blockCount), hasId,
                                sysInfo.icReference, "memory")
                       ELSE IF tvSys[1] # NoChip
                       THEN Iso15693Result(TRUE, tvSys[1], hasId,
                                           sysInfo.icReference, tvSys[2])
                       ELSE Iso15693Result(TRUE, "ISO15693_UNKNOWN", hasId,
                                           sysInfo.icReference, "unknown")
                  ELSE IF nxpOrUnknown /\ fromMemory # NoChip
                  THEN Iso15693Result(TRUE, fromMemory, hasId, uidIcReference,
                                      "memory")
                  ELSE Iso15693Result(TRUE, "ISO15693_UNKNOWN", hasId, NoNum,
                                      "unknown")
             ELSE IF icManufacturer = NXP_IC_MFG_CODE
             THEN IF uidIcReference # NoNum /\ tvUid[1] # NoChip
                  THEN Iso15693Result(TRUE, tvUid[1], hasId, uidIcReference,
                                      tvUid[2])
                  ELSE Iso15693Result(TRUE, "ISO15693_UNKNOWN", hasId,
                                      uidIcReference, "unknown")
             ELSE detectIso15693Platform(tag2)

isIso15693(techTypes) ==
    \/ HasTech(techTypes, "NfcV")
    \/ HasTech(techTypes, "ISO15693")
    \/ HasTech(techTypes, "Iso15693")

(***************************************************************************)
(* The readings a scan can deliver (NFCManager.tagEventToRawData)          *)
(***************************************************************************)
\* historicalBytes and ats are the same formatted string (parseAts)
Reading(techTypes, sak, atqaBytes, histBytes, mcSize, uidLen) ==
    [techTypes |-> techTypes, sak |-> sak, atqa |-> BytesToHex(atqaBytes),
     historicalBytes |-> BytesToHex(histBytes), ats |-> BytesToHex(histBytes),
     mcSize |-> mcSize, uidLen |-> uidLen]

NoBytes == <<>>

TypeASaks == {NoNum, \H00, \H01, \H08, \H09, \H10, \H18, \H19, \H20,
              \H28, \H38, \H88, \H98}
TypeAAtqas == {NoBytes, <<\H04, \H00>>, <<\H00, \H04>>, <<\H00, \H02>>,
               <<\H03, \H44>>}

HistValues ==
    {NoBytes,
     <<\H75, \H77, \H81, \H02, \H80>>,      \* DESFire
     <<\H80, \H77, \HC1, \H00>>,            \* NTAG 424 DNA, contains C1
     <<\H44, \H45, \H53, \H46, \H69, \H72, \H65>>, \* "DESFire"
     <<\H4A, \H43, \H4F, \H50, \H34>>,      \* "JCOP4"
     <<\H4A, \H43, \H4F, \H50, \H33>>,      \* "JCOP3"
     <<\H80, \H31, \H00>>,                  \* SmartMX capabilities
     <<\H78, \H11>>,                        \* ATS starting with 78
     <<\H00, \H11, \H22, \H33, \H44>>,      \* leading 00, five bytes
     <<\H08, \H03, \H10>>,                  \* "8031" across a byte boundary
     <<\H11, \H22>>}                        \* nothing recognisable

TypeAReadings ==
    {Reading(t, sak, atqa, NoBytes, NoNum, 4) :
        t \in {{"NfcA"}}, sak \in TypeASaks, atqa \in TypeAAtqas}
    \cup {Reading({"NfcA", "MifareUltralight"}, sak, atqa, NoBytes, NoNum, 7) :
        sak \in {NoNum, \H00}, atqa \in {NoBytes, <<\H00, \H44>>}}

ClassicReadings ==
    {Reading({"NfcA", "MifareClassic"}, sak, atqa, NoBytes, mcSize, uidLen) :
        sak \in {NoNum, \H08, \H09, \H18, \H19, \H28, \H38},
        atqa \in {NoBytes, <<\H04, \H00>>, <<\H00, \H02>>},
        mcSize \in {NoNum, 320, 1024, 4096},
        uidLen \in {4, 7}}

IsoDepReadings ==
    {Reading({"NfcA", "IsoDep"}, \H20, atqa, hist, NoNum, 7) :
        atqa \in {NoBytes, <<\H03, \H44>>, <<\H04, \H00>>}, hist \in HistValues}
    \cup {Reading({"NfcA", "IsoDep", "MifareClassic"}, sak, atqa, hist, mcSize, 4) :
        sak \in {\H08, \H28}, atqa \in {NoBytes, <<\H04, \H00>>},
        hist \in {NoBytes, <<\H80, \H77, \HC1, \H00>>},
        mcSize \in {NoNum, 4096}}
    \cup {Reading(t, sak, NoBytes, hist, NoNum, 7) :
        t \in {{"IsoDep"}, {"IsoDep", "NfcB"}}, sak \in {NoNum, \H20},
        hist \in {NoBytes, <<\H4A, \H43, \H4F, \H50, \H34>>}}

OtherReadings ==
    {Reading(t, sak, NoBytes, NoBytes, NoNum, 8) :
        t \in {{"NfcV"}, {"NfcV", "NdefFormatable"}, {"NfcB"}, {"NfcF"}, {}},
        sak \in {NoNum, \H00}}

Readings == TypeAReadings \cup ClassicReadings \cup IsoDepReadings
            \cup OtherReadings

(***************************************************************************)
(* One tag session: the state around detectChip                            *)
(***************************************************************************)
NoFault == [kind |-> "none", at |-> 0]
NoLoc   == [chipType |-> NoChip, memorySize |-> NoNum, via |-> "none",
            confidence |-> "none", implantName |-> ""]
NoRuns  == <<>>
NoData  == [tag |-> "null", transponder |-> "undefined", error |-> "null"]
\* The component is mounted: initialize() awaits nfcManager.init(), no
\* cancelScan and no openSettings call is in flight
NoOps == [initialize |-> "init", cancelScan |-> FALSE, openSettings |-> FALSE]

Init ==
    /\ rawData \in Readings
    /\ pc = "classic"
    /\ stepLog = <<>>
    /\ probeLog = <<>>
    /\ transport = "open"
    /\ fault = NoFault
    /\ loc = NoLoc
    /\ result = NoResult
    /\ scanInProgress = FALSE
    /\ hookState = "idle"
    /\ hookData = NoData
    /\ runs = NoRuns
    /\ techHeld = FALSE
    /\ isMounted = TRUE
    /\ asyncOps = NoOps
    /\ lateSetters = {}
    /\ sensor = NoSensor
    /\ io = NoIo

hasMifareClassicTech == HasTech(rawData.techTypes, "MifareClassic")
hasIsoDepTech        == HasTech(rawData.techTypes, "IsoDep")

\* What the transport does to the commands of one detector call:
\* "ok" answers them, "tagLost" and "timeout" make them throw
EnvChoices == IF transport = "open" THEN {"ok", "tagLost", "timeout"} ELSE {"ok"}

Down(env) == transport # "open" \/ env # "ok"

RECURSIVE Repeat(_, _)
Repeat(x, n) == IF n <= 0 THEN <<>> ELSE <<x>> \o Repeat(x, n - 1)

\* n commands of `step` go to the transport under `env`
Issue(step, n, env) ==
    /\ probeLog' = probeLog \o Repeat(step, n)
    /\ fault' = IF fault.kind = "none" /\ env # "ok"
                THEN [kind |-> env, at |-> Len(probeLog) + 1] ELSE fault
    /\ transport' = IF env = "tagLost" THEN "lost" ELSE transport

NoIssue == UNCHANGED <<probeLog, fault, transport>>

\* return {success: true, transponder: createTransponder(...)}
Terminate(step, type, memorySize, confidence, implantName, via) ==
    /\ result' = [success |-> TRUE, kind |-> "done", step |-> step, via |-> via,
                  base |-> [type |-> type, confidence |-> confidence],
                  transponder |-> createTransponder(type, rawData, memorySize,
                                                    confidence, implantName)]
    /\ pc' = "done"

GoTo(next) == pc' = next /\ UNCHANGED result

Evaluate(step) == stepLog' = Append(stepLog, step)

\* detectChip touches neither the reading nor the hook
SessionFrame == UNCHANGED <<rawData, scanInProgress, hookState, hookData, runs,
                            techHeld, isMounted, asyncOps, lateSetters,
                            sensor, io>>

(***************************************************************************)
(* detectChip, step 1: MIFARE Classic fast path                            *)
(***************************************************************************)
\* <<type, memorySize>> chosen under the MifareClassic technology hint
\* A variant selection that asks the SAK before the capacity hint
ClassicByTech_SakFirst(raw) ==
    IF raw.mcSize \notin {NoNum, 0} /\ raw.sak \notin {\H18, \H38, \H98, \H09}
    THEN IF raw.mcSize >= 4096 THEN <<"MIFARE_CLASSIC_4K", 4096>>
         ELSE IF raw.mcSize >= 1024 THEN <<"MIFARE_CLASSIC_1K", 1024>>
         ELSE IF raw.mcSize >= 320 THEN <<"MIFARE_CLASSIC_MINI", 320>>
         ELSE <<"MIFARE_CLASSIC_1K", 1024>>
    ELSE IF raw.sak \in {\H18, \H38, \H98} THEN <<"MIFARE_CLASSIC_4K", 4096>>
    ELSE IF raw.sak = \H09 THEN <<"MIFARE_CLASSIC_MINI", 320>>
    ELSE IF raw.uidLen * 2 = 14 /\ raw.sak = NoNum
    THEN <<"MIFARE_CLASSIC_4K", 4096>>
    ELSE <<"MIFARE_CLASSIC_1K", 1024>>

ClassicByTech(raw) ==
    IF raw.mcSize \notin {NoNum, 0}
    THEN IF raw.mcSize >= 4096 THEN <<"MIFARE_CLASSIC_4K", 4096>>
         ELSE IF raw.mcSize >= 1024 THEN <<"MIFARE_CLASSIC_1K", 1024>>
         ELSE IF raw.mcSize >= 320 THEN <<"MIFARE_CLASSIC_MINI", 320>>
         ELSE <<"MIFARE_CLASSIC_1K", 1024>>
    ELSE IF raw.sak \in {\H18, \H38, \H98} THEN <<"MIFARE_CLASSIC_4K", 4096>>
    ELSE IF raw.sak = \H09 THEN <<"MIFARE_CLASSIC_MINI", 320>>
    ELSE IF raw.uidLen * 2 = 14 /\ raw.sak = NoNum
    THEN <<"MIFARE_CLASSIC_4K", 4096>>
    ELSE <<"MIFARE_CLASSIC_1K", 1024>>

CheckMifareClassic ==
    /\ pc = "classic"
    /\ SessionFrame
    /\ Evaluate("classic")
    /\ NoIssue
    /\ UNCHANGED loc
    /\ IF hasMifareClassicTech /\ ~hasIsoDepTech
       THEN Terminate("classic", ClassicByTech(rawData)[1],
                      ClassicByTech(rawData)[2], "high", NoName, "tech")
       ELSE IF rawData.sak # NoNum /\ isMifareClassicSak(rawData.sak)
               /\ ~hasIsoDepTech
       THEN Terminate("classic", detectMifareClassic(rawData.sak).chipType,
                      detectMifareClassic(rawData.sak).memorySize, "high",
                      NoName, "sak")
       ELSE GoTo("ntag")

(***************************************************************************)
(* detectChip, step 2: NTAG / Ultralight                                   *)
(***************************************************************************)
\* GET_VERSION answers of Type 2 tags: header, vendor, product type,
\* subtype, major, minor, storage size, protocol
NtagVersion(vendor, productType, subtype, storage) ==
    Reply(<<\H00, vendor, productType, subtype, \H01, \H00, storage, \H03>>)

NtagResponses ==
    {NtagVersion(\H04, pt, st, sz) :
        pt \in {\H03, \H04, \H05, \H09}, st \in {\H01, \H02},
        sz \in {\H06, \H0B, \H0F, \H11, \H13, \H15, \H77}}
    \cup {NtagVersion(\H05, \H04, \H01, \H0F),
          Reply(<<\H00>>),          \* NAK / short answer
          Threw}                    \* command not supported

NtagConfidence(chipType) == IF chipType = "NTAG_UNKNOWN" THEN "medium" ELSE "high"

\* A step 2 that trusts the MifareUltralight technology fully
DetectNtagStep_HighOnFailure ==
    /\ pc = "ntag"
    /\ SessionFrame
    /\ Evaluate("ntag")
    /\ IF mightBeNtag(rawData.sak, rawData.techTypes)
       THEN \E env \in EnvChoices :
            \E resp \in (IF Down(env) THEN {Threw} ELSE NtagResponses) :
              LET ntagResult == detectNtag(resp)
              IN  /\ Issue("ntag", 1, env)
                  /\ IF ntagResult.success /\ ntagResult.chipType # NoChip
                     THEN /\ loc' = [chipType |-> ntagResult.chipType,
                                     memorySize |-> ntagResult.memorySize,
                                     via |-> ntagResult.via,
                                     confidence |->
                                         NtagConfidence(ntagResult.chipType),
                                     implantName |-> NoName]
                          /\ GoTo("ntagImplant")
                     ELSE /\ UNCHANGED loc
                          /\ IF rawData.sak \in {\H00, NoNum}
                                /\ HasTech(rawData.techTypes, "NfcA")
                             THEN IF HasTech(rawData.techTypes, "MifareUltralight")
                                  THEN Terminate("ntag", "ULTRALIGHT", 48,
                                                 "high", NoName, "tech")
                                  ELSE Terminate("ntag", "NTAG_UNKNOWN", NoNum,
                                                 "low", NoName, "tech")
                             ELSE GoTo("isodep")
       ELSE /\ NoIssue
            /\ UNCHANGED loc
            /\ GoTo("isodep")

\* Step 2 of detectChip: GET_VERSION, and the fallback when it fails
DetectNtagStep ==
    /\ pc = "ntag"
    /\ SessionFrame
    /\ Evaluate("ntag")
    /\ IF mightBeNtag(rawData.sak, rawData.techTypes)
       THEN \E env \in EnvChoices :
            \E resp \in (IF Down(env) THEN {Threw} ELSE NtagResponses) :
              LET ntagResult == detectNtag(resp)
              IN  /\ Issue("ntag", 1, env)
                  /\ IF ntagResult.success /\ ntagResult.chipType # NoChip
                     THEN /\ loc' = [chipType |-> ntagResult.chipType,
                                     memorySize |-> ntagResult.memorySize,
                                     via |-> ntagResult.via,
                                     confidence |->
                                         NtagConfidence(ntagResult.chipType),
                                     implantName |-> NoName]
                          /\ GoTo("ntagImplant")
                     ELSE /\ UNCHANGED loc
                          /\ IF rawData.sak \in {\H00, NoNum}
                                /\ HasTech(rawData.techTypes, "NfcA")
                             THEN IF HasTech(rawData.techTypes, "MifareUltralight")
                                  THEN Terminate("ntag", "ULTRALIGHT", 48,
                                                 "medium", NoName, "tech")
                                  ELSE Terminate("ntag", "NTAG_UNKNOWN", NoNum,
                                                 "low", NoName, "tech")
                             ELSE GoTo("isodep")
       ELSE /\ NoIssue
            /\ UNCHANGED loc
            /\ GoTo("isodep")

\* Outcome of a best-effort implant probe: the name found, nothing, or a throw
ProbeOutcomes(name, env) ==
    IF Down(env) THEN {"threw"} ELSE {name, "none", "threw"}

ImplantNameOf(outcome) == IF outcome \in {"none", "threw"} THEN NoName ELSE outcome

\* An implant-name probe whose throw reaches the caller of detectChip
ImplantNameProbe_Blocking ==
    /\ pc = "ntagImplant"
    /\ SessionFrame
    /\ UNCHANGED <<stepLog, loc>>
    /\ \E env \in EnvChoices :
       \E outcome \in ProbeOutcomes("xNT", env) :
          /\ Issue("ntag", 1, env)
          /\ IF outcome = "threw"
             THEN /\ result' = [success |-> FALSE, kind |-> "done"]
                  /\ pc' = "done"
             ELSE Terminate("ntag", loc.chipType, loc.memorySize,
                            loc.confidence, ImplantNameOf(outcome), loc.via)

\* detectImplantNameInMemory(chipType), inside try/catch
ImplantNameProbe ==
    /\ pc = "ntagImplant"
    /\ SessionFrame
    /\ UNCHANGED <<stepLog, loc>>
    /\ \E env \in EnvChoices :
       \E outcome \in ProbeOutcomes("xNT", env) :
          /\ Issue("ntag", 1, env)
          /\ Terminate("ntag", loc.chipType, loc.memorySize, loc.confidence,
                       ImplantNameOf(outcome), loc.via)

(***************************************************************************)
(* detectChip, step 3: ISO-DEP sub-waterfall                               *)
(***************************************************************************)
\* First GET_VERSION frame: vendor, product type, subtype, major, minor,
\* storage size, protocol, then the two status bytes
DesfireFrame(vendor, productType, subtype, major, storage, sw1, sw2) ==
    Reply(<<vendor, productType, subtype, major, \H00, storage, \H05, sw1, sw2>>)

DesfireChips ==
    {<<\H01, \H01, m, \H18>> : m \in {\H01, \H12, \H13, \H33, \H40, \H05}}
    \cup {<<\H04, st, \H30, \H11>> : st \in {\H02, \H04, \H05, \H09}}
    \cup {<<\H05, \H02, \H30, \H13>>, <<\H05, \H01, \H30, \H15>>,
          <<\H05, \H01, \H30, \H77>>,
          <<\H08, \H01, \H30, \H13>>,
          <<\H21, \H01, \H30, \H11>>}

DesfireResponses ==
    {DesfireFrame(\H04, c[1], c[2], c[3], c[4], sw[1], sw[2]) :
        c \in DesfireChips, sw \in {<<\H91, \HAF>>, <<\H91, \H00>>}}
    \cup {DesfireFrame(\H04, \H01, \H01, \H12, \H18, sw[1], sw[2]) :
        sw \in {<<\HAF, \H00>>, <<\H90, \HAF>>, <<\H90, \H00>>,
                <<\H6A, \H82>>, <<\H91, \H1C>>}}
    \cup {DesfireFrame(\H05, \H01, \H01, \H12, \H18, \H91, \HAF),
          Reply(<<\H04, \H01, \H01, \H91, \HAF>>),  \* short frame
          Reply(<<\H6D, \H00>>),                     \* instruction not supported
          Reply(<<>>),
          Threw}

DesfireContinuations ==
    {Reply(<<\H04, \H01, \H01, \H02, \H00, \H18, \H05, \H91, \HAF>>),
     Reply(<<\H91, \H00>>),
     Threw}

DesfireConfidence(chipType) ==
    IF chipType = "DESFIRE_UNKNOWN" THEN "medium" ELSE "high"

IsoDepGuard ==
    (rawData.sak # NoNum /\ hasIsoDepCapability(rawData.sak)) \/ hasIsoDepTech

DetectDesfireStep ==
    /\ pc = "isodep"
    /\ SessionFrame
    /\ IF ~IsoDepGuard
       THEN /\ Evaluate("isodep")
            /\ NoIssue
            /\ UNCHANGED loc
            /\ GoTo("iso15693")
       ELSE \E env \in EnvChoices :
            \E r1 \in (IF Down(env) THEN {Threw} ELSE DesfireResponses) :
            \E r2 \in (IF Down(env) THEN {Threw} ELSE DesfireContinuations) :
              LET desfireResult == detectDesfire(r1, r2)
              IN  /\ stepLog' = stepLog \o <<"isodep", "desfireVersion">>
                  /\ Issue("desfireVersion",
                           IF desfireResult.continued THEN 2 ELSE 1, env)
                  /\ IF desfireResult.success /\ desfireResult.chipType # NoChip
                     THEN /\ loc' = [chipType |-> desfireResult.chipType,
                                     memorySize |-> desfireResult.storageSize,
                                     via |-> desfireResult.via,
                                     confidence |->
                                       DesfireConfidence(desfireResult.chipType),
                                     implantName |-> NoName]
                          /\ GoTo("desfireApps")
                     ELSE /\ UNCHANGED loc
                          /\ GoTo("desfireAts")

isNtagDna(chipType) ==
    chipType \in {"NTAG424_DNA", "NTAG424_DNA_TT", "NTAG413_DNA"}

\* enumerateDesfireApps(), inside try/catch; an NTAG DNA chip goes on to the
\* Spark 2 check, any other chip is returned
EnumerateDesfireApps ==
    /\ pc = "desfireApps"
    /\ SessionFrame
    /\ UNCHANGED <<stepLog, loc>>
    /\ \E env \in EnvChoices :
          /\ Issue("desfireVersion", 1, env)
          /\ IF isNtagDna(loc.chipType)
             THEN GoTo("spark2")
             ELSE Terminate("desfireVersion", loc.chipType, loc.memorySize,
                            loc.confidence, NoName, loc.via)

\* detectSpark2FromNdef(rawData.ndefRecords), else detectSpark2Implant()
Spark2Probe ==
    /\ pc = "spark2"
    /\ SessionFrame
    /\ UNCHANGED <<stepLog, loc>>
    /\ \/ /\ NoIssue
          /\ Terminate("desfireVersion", loc.chipType, loc.memorySize,
                       loc.confidence, "Spark 2", loc.via)
       \/ \E env \in EnvChoices :
          \E outcome \in ProbeOutcomes("Spark 2", env) :
             /\ Issue("desfireVersion", 1, env)
             /\ Terminate("desfireVersion", loc.chipType, loc.memorySize,
                          loc.confidence, ImplantNameOf(outcome), loc.via)

\* A step 3b that trusts the ATS pattern as much as a version answer
DesfireFromAts_High ==
    /\ pc = "desfireAts"
    /\ SessionFrame
    /\ Evaluate("desfireAts")
    /\ NoIssue
    /\ UNCHANGED loc
    /\ LET desfireAtsResult ==
               detectDesfireFromAts(rawData.historicalBytes, rawData.ats,
                                    rawData.sak, rawData.atqa)
       IN  IF desfireAtsResult.success /\ desfireAtsResult.chipType # NoChip
           THEN Terminate("desfireAts", desfireAtsResult.chipType, NoNum,
                          "high", NoName, "ats")
           ELSE GoTo("javacard")

\* 3b: ATS / historical-byte / SAK-ATQA patterns
DesfireFromAts ==
    /\ pc = "desfireAts"
    /\ SessionFrame
    /\ Evaluate("desfireAts")
    /\ NoIssue
    /\ UNCHANGED loc
    /\ LET desfireAtsResult ==
               detectDesfireFromAts(rawData.historicalBytes, rawData.ats,
                                    rawData.sak, rawData.atqa)
       IN  IF desfireAtsResult.success /\ desfireAtsResult.chipType # NoChip
           THEN Terminate("desfireAts", desfireAtsResult.chipType, NoNum,
                          "medium", NoName, "ats")
           ELSE GoTo("javacard")

\* 3c / 3d: what a card answers to the JavaCard probe
CplcBytes(fabricator, osId, tagged) ==
    (IF tagged THEN <<\H9F, \H7F, \H2A>> ELSE <<>>)
    \o <<fabricator \div 256, fabricator % 256, \H00, \H00,
         osId \div 256, osId % 256>>
    \o [i \in 1..36 |-> 0]

CardManagerResponses == {Reply(<<\H90, \H00>>), Reply(<<\H6A, \H82>>), Threw}

CplcResponses ==
    {Reply(CplcBytes(\H4790, \H4791, TRUE) \o <<\H90, \H00>>),
     Reply(CplcBytes(\H4790, \H4700, FALSE) \o <<\H90, \H00>>),
     Reply(CplcBytes(\H4790, \H4680, TRUE) \o <<\H90, \H00>>),
     Reply(CplcBytes(\H4090, \H4700, TRUE) \o <<\H90, \H00>>),
     Reply([i \in 1..20 |-> 0] \o <<\H90, \H00>>),
     Reply(<<\H6A, \H88>>),
     Threw}

AllAids == {AppletAids[i] : i \in 1..5} \cup {NetworkAids[i] : i \in 1..5}

Selects(present) == [a \in AllAids |-> IF a \in present THEN "ok" ELSE "no"]

AllSelectsThrow == [a \in AllAids |-> "threw"]

AppletProfiles ==
    {Selects(present) :
        present \in {{}, {"javacardMemory"}, {"fidesmo"}, {"openPgp", "fido"},
                     {"javacardMemory", "fidesmo"}, {"ppse"},
                     {"ppse", "visaCredit"}, {"ppse", "mastercard", "maestro"},
                     {"visaCredit"}}}
    \cup {[Selects({"javacardMemory", "fidesmo"}) EXCEPT !["javacardMemory"] = "threw"]}

\* Commands detectJavaCard sends: SELECT card manager, GET CPLC when it was
\* selected, five applet SELECTs, network SELECTs up to the first success
NetworkSelectCount(sel) ==
    IF sel["ppse"] # "ok" THEN 0
    ELSE IF \E i \in 1..5 : sel[NetworkAids[i]] = "ok"
    THEN CHOOSE i \in 1..5 :
            /\ sel[NetworkAids[i]] = "ok"
            /\ \A j \in 1..(i - 1) : sel[NetworkAids[j]] # "ok"
    ELSE 5

JavaCardCommandCount(cm, sel) ==
    1 + (IF ~cm.threw /\ parseApduResponse(cm.bytes).isSuccess THEN 1 ELSE 0)
      + 5 + NetworkSelectCount(sel)

PaymentNetworks == {NetworkNames[i] : i \in 1..5}

PaymentCardName(network) ==
    CASE network = "Visa" -> "Visa Payment Card"
      [] network = "Mastercard" -> "Mastercard Payment Card"
      [] network = "American Express" -> "American Express Payment Card"
      [] network = "Discover" -> "Discover Payment Card"
      [] network = "Maestro" -> "Maestro Payment Card"
      [] OTHER -> "Payment Card"

\* isFidesmo is not a field of this detectJavaCard result: always undefined
getJavacardImplantName(installedApplets) ==
    IF Len(installedApplets) = 0 THEN NoName
    ELSE IF SeqIncludes(installedApplets, "Payment (PPSE)")
    THEN IF \E i \in 1..Len(installedApplets) :
                installedApplets[i] \in PaymentNetworks
         THEN PaymentCardName(installedApplets[CHOOSE i \in 1..Len(installedApplets) :
                  /\ installedApplets[i] \in PaymentNetworks
                  /\ \A j \in 1..(i - 1) : installedApplets[j] \notin PaymentNetworks])
         ELSE "Payment Card"
    ELSE IF SeqIncludes(installedApplets, "Fidesmo") THEN "Apex"
    ELSE IF SeqIncludes(installedApplets, "JavaCard Memory") THEN "flexSecure"
    ELSE NoName

JavaCardConfidence(chipType) == IF chipType = "JCOP4" THEN "high" ELSE "medium"

\* 3c: CPLC / applet probe when the ATS looks like a JavaCard, then the
\* JavaCard ATS patterns
JavaCardProbe ==
    /\ pc = "javacard"
    /\ SessionFrame
    /\ IF ~mightBeJavaCard(rawData.historicalBytes, rawData.ats)
       THEN /\ Evaluate("javacardCplc")
            /\ NoIssue
            /\ UNCHANGED loc
            /\ GoTo("jcFallback")
       ELSE \E env \in EnvChoices :
            \E cm \in (IF Down(env) THEN {Threw} ELSE CardManagerResponses) :
            \E cplcResp \in (IF Down(env) THEN {Threw} ELSE CplcResponses) :
            \E sel \in (IF Down(env) THEN {AllSelectsThrow} ELSE AppletProfiles) :
              LET jcResult    == detectJavaCard(cm, cplcResp, sel)
                  jcAtsResult == detectJavaCardFromAts(rawData.historicalBytes,
                                                       rawData.ats)
              IN  /\ Issue("javacardCplc", JavaCardCommandCount(cm, sel), env)
                  /\ IF jcResult.success /\ jcResult.chipType # NoChip
                     THEN /\ stepLog' = Append(stepLog, "javacardCplc")
                          /\ loc' = [chipType |-> jcResult.chipType,
                                     memorySize |-> NoNum,
                                     via |-> jcResult.via,
                                     confidence |->
                                         JavaCardConfidence(jcResult.chipType),
                                     implantName |-> getJavacardImplantName(
                                         jcResult.installedApplets)]
                          /\ GoTo("jcStorage")
                     ELSE /\ stepLog' = stepLog \o <<"javacardCplc", "javacardAts">>
                          /\ UNCHANGED loc
                          /\ IF jcAtsResult.success /\ jcAtsResult.chipType # NoChip
                             THEN Terminate("javacardAts", jcAtsResult.chipType,
                                            NoNum, "medium", NoName, "ats")
                             ELSE GoTo("jcFallback")

\* getJavacardStorageInfo(), inside try/catch, after either JavaCard probe
JavacardStorageInfo ==
    /\ pc = "jcStorage"
    /\ SessionFrame
    /\ UNCHANGED <<stepLog, loc>>
    /\ \E env \in EnvChoices :
          /\ Issue(stepLog[Len(stepLog)], 1, env)
          /\ Terminate(stepLog[Len(stepLog)], loc.chipType, loc.memorySize,
                       loc.confidence, loc.implantName, loc.via)

\* 3d: the same probe again, as a general fallback
JavaCardFallbackProbe ==
    /\ pc = "jcFallback"
    /\ SessionFrame
    /\ Evaluate("appletReprobe")
    /\ \E env \in EnvChoices :
       \E cm \in (IF Down(env) THEN {Threw} ELSE CardManagerResponses) :
       \E cplcResp \in (IF Down(env) THEN {Threw} ELSE CplcResponses) :
       \E sel \in (IF Down(env) THEN {AllSelectsThrow} ELSE AppletProfiles) :
         LET jcFallback == detectJavaCard(cm, cplcResp, sel)
         IN  /\ Issue("appletReprobe", JavaCardCommandCount(cm, sel), env)
             /\ IF jcFallback.success /\ jcFallback.chipType # NoChip
                THEN /\ loc' = [chipType |-> jcFallback.chipType,
                                memorySize |-> NoNum,
                                via |-> jcFallback.via,
                                confidence |-> "medium",
                                implantName |-> getJavacardImplantName(
                                    jcFallback.installedApplets)]
                     /\ GoTo("jcStorage")
                ELSE /\ UNCHANGED loc
                     /\ GoTo("jcAtsLastResort")

\* 3e: the JavaCard ATS patterns once more, whatever mightBeJavaCard said
JavaCardAtsLastResort ==
    /\ pc = "jcAtsLastResort"
    /\ SessionFrame
    /\ Evaluate("javacardAtsLastResort")
    /\ NoIssue
    /\ UNCHANGED loc
    /\ LET jcAtsFallback == detectJavaCardFromAts(rawData.historicalBytes,
                                                  rawData.ats)
       IN  IF jcAtsFallback.success /\ jcAtsFallback.chipType # NoChip
           THEN Terminate("javacardAtsLastResort", jcAtsFallback.chipType,
                          NoNum, "low", NoName, "ats")
           ELSE GoTo("unknownA")

\* An unknown-ISO14443-A state that gives up instead of classifying
UnknownIso14443A_Failing ==
    /\ pc = "unknownA"
    /\ SessionFrame
    /\ Evaluate("unknownA")
    /\ NoIssue
    /\ UNCHANGED loc
    /\ result' = [success |-> FALSE, kind |-> "error"]
    /\ pc' = "done"

\* ISO-DEP but not identified
UnknownIso14443A ==
    /\ pc = "unknownA"
    /\ SessionFrame
    /\ Evaluate("unknownA")
    /\ NoIssue
    /\ UNCHANGED loc
    /\ Terminate("unknownA", "ISO14443A_UNKNOWN", NoNum, "low", NoName, "tech")

(***************************************************************************)
(* detectChip, step 4: ISO 15693                                           *)
(***************************************************************************)
TagThrew  == [threw |-> TRUE, present |-> FALSE, id |-> <<>>]
NoTag     == [threw |-> FALSE, present |-> FALSE, id |-> <<>>]
Tag(id)   == [threw |-> FALSE, present |-> TRUE, id |-> id]

MsbUid(mfg, icRef) == <<\HE0, mfg, icRef, \H11, \H22, \H33, \H44, \H55>>
LsbUid(mfg, icRef) == <<\H55, \H44, \H33, \H22, \H11, icRef, mfg, \HE0>>

VicinityTags ==
    {Tag(MsbUid(\H04, icRef)) :
        icRef \in {\H01, \H04, \H20, \H40, \H4C, \H96, \HB0, \H60}}
    \cup {Tag(LsbUid(\H04, \H14)), Tag(MsbUid(\H07, \H01)),
          Tag(<<\HE0, \H04, \H01, \H11>>), Tag(<<>>), NoTag, TagThrew}

SysInfoThrew == [threw |-> TRUE, icReference |-> NoNum, blockCount |-> NoNum,
                 blockSize |-> NoNum]

SysInfo(icReference, blockCount) ==
    [threw |-> FALSE, icReference |-> icReference, blockCount |-> blockCount,
     blockSize |-> IF blockCount = NoNum THEN NoNum ELSE 4]

SysInfoResponses ==
    {SysInfo(icRef, blocks) :
        icRef \in {NoNum, \H00, \H01, \H04, \H40, \H96, \H60},
        blocks \in {NoNum, 16, 28, 40, 64, 80, 200}}
    \cup {SysInfoThrew}

Iso15693KnownTypes == {"SLIX", "SLIX2", "SLIX_S", "SLIX_L", "NTAG5_LINK",
                       "NTAG5_BOOST", "NTAG5_SWITCH"}

Iso15693Confidence(chipType) ==
    IF chipType = "ISO15693_UNKNOWN" THEN "low"
    ELSE IF chipType \in Iso15693KnownTypes THEN "high"
    ELSE "medium"

isNtag5WithI2c(chipType) == chipType \in {"NTAG5_BOOST", "NTAG5_LINK"}

\* The outcome of detectIso15693 drives the rest of step 4
AfterIso15693(iso15693Result) ==
    IF iso15693Result.success /\ iso15693Result.chipType # NoChip
    THEN /\ loc' = [chipType |-> iso15693Result.chipType,
                    memorySize |-> NoNum,
                    via |-> iso15693Result.via,
                    confidence |-> Iso15693Confidence(iso15693Result.chipType),
                    implantName |-> NoName]
         /\ IF isNtag5WithI2c(iso15693Result.chipType) /\ iso15693Result.hasUid
            THEN GoTo("sensor") ELSE GoTo("spark1")
    ELSE /\ UNCHANGED loc
         /\ Terminate("iso15693", "ISO15693_UNKNOWN", NoNum, "low", NoName,
                      "tech")

DetectIso15693Step ==
    /\ pc = "iso15693"
    /\ SessionFrame
    /\ Evaluate("iso15693")
    /\ IF ~isIso15693(rawData.techTypes)
       THEN /\ NoIssue
            /\ UNCHANGED loc
            /\ GoTo("nfcB")
       ELSE \E tag \in VicinityTags :
            IF tag.threw
            THEN /\ NoIssue
                 /\ AfterIso15693(detectIso15693(tag, SysInfoThrew, tag))
            ELSE \E env \in EnvChoices :
                 \E sysInfo \in (IF Down(env) THEN {SysInfoThrew}
                                 ELSE SysInfoResponses) :
                 \E tag2 \in {tag, NoTag, TagThrew} :
                    /\ Issue("iso15693", 1, env)
                    /\ AfterIso15693(detectIso15693(tag, sysInfo, tag2))

\* detectNtag5SensorImplant(uid, afi, dsfid), inside try/catch
Ntag5SensorProbe ==
    /\ pc = "sensor"
    /\ SessionFrame
    /\ UNCHANGED <<stepLog, loc>>
    /\ \E env \in EnvChoices :
       \E outcome \in ProbeOutcomes("Temptress", env) :
          /\ Issue("iso15693", 1, env)
          /\ IF ImplantNameOf(outcome) # NoName
             THEN Terminate("iso15693", loc.chipType, loc.memorySize,
                            loc.confidence, ImplantNameOf(outcome), loc.via)
             ELSE GoTo("spark1")

\* detectSparkImplant(chipType), inside try/catch
SparkProbe ==
    /\ pc = "spark1"
    /\ SessionFrame
    /\ UNCHANGED <<stepLog, loc>>
    /\ \E env \in EnvChoices :
       \E outcome \in ProbeOutcomes("Spark 1", env) :
          /\ Issue("iso15693", 1, env)
          /\ Terminate("iso15693", loc.chipType, loc.memorySize,
                       loc.confidence, ImplantNameOf(outcome), loc.via)

(***************************************************************************)
(* detectChip, steps 5 and 6                                               *)
(***************************************************************************)
\* A step 5 that hands a tag without NfcB back to step 4
CheckNfcB_Looping ==
    /\ pc = "nfcB"
    /\ SessionFrame
    /\ Evaluate("nfcB")
    /\ NoIssue
    /\ UNCHANGED loc
    /\ IF HasTech(rawData.techTypes, "NfcB")
       THEN Terminate("nfcB", "ISO14443B_UNKNOWN", NoNum, "low", NoName, "tech")
       ELSE GoTo("iso15693")

CheckNfcB ==
    /\ pc = "nfcB"
    /\ SessionFrame
    /\ Evaluate("nfcB")
    /\ NoIssue
    /\ UNCHANGED loc
    /\ IF HasTech(rawData.techTypes, "NfcB")
       THEN Terminate("nfcB", "ISO14443B_UNKNOWN", NoNum, "low", NoName, "tech")
       ELSE GoTo("unknown")

FallbackUnknown ==
    /\ pc = "unknown"
    /\ SessionFrame
    /\ Evaluate("unknown")
    /\ NoIssue
    /\ UNCHANGED loc
    /\ Terminate("unknown", "UNKNOWN", NoNum, "low", NoName, "tech")

(***************************************************************************)
(* The session around detectChip (NFCManager.scanWithDetection)            *)
(***************************************************************************)
Running == pc \notin {"done", "released"}

\* The user cancels while detectChip runs: cancelTechnologyRequest closes
\* the transport under the probe in flight
CancelDuringDetection ==
    /\ Running
    /\ transport # "released"
    /\ transport' = "released"
    /\ fault' = IF fault.kind = "none"
                THEN [kind |-> "cancelled", at |-> Len(probeLog)] ELSE fault
    /\ UNCHANGED <<pc, stepLog, probeLog, loc, result>>
    /\ SessionFrame

\* finally { await this.cancelScan() }
ReleaseAfterDetection ==
    /\ pc = "done"
    /\ pc' = "released"
    /\ transport' = "released"
    /\ UNCHANGED <<stepLog, probeLog, fault, loc, result>>
    /\ SessionFrame

Next ==
    \/ CheckMifareClassic
    \/ DetectNtagStep
    \/ ImplantNameProbe
    \/ DetectDesfireStep
    \/ EnumerateDesfireApps
    \/ Spark2Probe
    \/ DesfireFromAts
    \/ JavaCardProbe
    \/ JavacardStorageInfo
    \/ JavaCardFallbackProbe
    \/ JavaCardAtsLastResort
    \/ UnknownIso14443A
    \/ DetectIso15693Step
    \/ Ntag5SensorProbe
    \/ SparkProbe
    \/ CheckNfcB
    \/ FallbackUnknown
    \/ CancelDuringDetection
    \/ ReleaseAfterDetection

Spec == Init /\ [][Next]_vars


(***************************************************************************)
(* The useScan hook over NFCManagerService (useScan.ts, NFCManager.ts)     *)
(*                                                                         *)
(* Every startScan call that passes the scanInProgress guard is a run: an  *)
(* asynchronous function that awaits getStatus, then scanWithDetection     *)
(* (requestTechnology, the tag, detectFn, the releasing cancelScan) and    *)
(* then settles the hook state.  Runs interleave at their awaits.          *)
(***************************************************************************)
MaxScans == 2

\* The error a rejected request maps to (by the error message's wording)
categorizeError(kind) ==
    CASE kind = "cancelled" -> "SCAN_CANCELLED"
      [] kind = "tagLost" -> "TAG_LOST"
      [] kind = "timeout" -> "TIMEOUT"
      [] kind = "permission" -> "PERMISSION_DENIED"
      [] OTHER -> "UNKNOWN"

\* A run: its position, whether its technology request was cancelled, what
\* scanWithDetection returns to it, and whether a cancelScan call of the hook
\* was issued ("requested") and has completed ("completed") since it started
Run(phase, cancelled, out) ==
    [phase |-> phase, cancelled |-> cancelled, out |-> out, hookCancel |-> "none"]

\* A run holds a tag session from requestTechnology until detectFn returns
InSession(run) == run.phase \in {"request", "detect"}
InFlight(run)  == run.phase # "finished"

\* NfcManager.cancelTechnologyRequest(): the technology is dropped under
\* whichever run holds or awaits it
cancelTechnologyRequest(rs) ==
    [i \in 1..Len(rs) |->
        IF InSession(rs[i]) THEN [rs[i] EXCEPT !.cancelled = TRUE] ELSE rs[i]]

InitScan ==
    /\ rawData = Reading({"NfcA"}, \H00, NoBytes, NoBytes, NoNum, 7)
    /\ pc = "classic"
    /\ stepLog = <<>>
    /\ probeLog = <<>>
    /\ transport = "open"
    /\ fault = NoFault
    /\ loc = NoLoc
    /\ result = NoResult
    /\ scanInProgress = FALSE
    /\ hookState = "idle"
    /\ hookData = NoData
    /\ runs = NoRuns
    /\ techHeld = FALSE
    /\ isMounted = TRUE
    /\ asyncOps = NoOps
    /\ lateSetters = {}
    /\ sensor = NoSensor
    /\ io = NoIo

HookFrame == UNCHANGED <<detVars, auxVars>>

\* A state setter is invoked: after the unmount the call is a late one
Invoke(setters) ==
    lateSetters' = IF isMounted THEN lateSetters ELSE lateSetters \cup setters

\* useEffect: initialize() after `await nfcManager.init()`
InitializeInited ==
    /\ asyncOps.initialize = "init"
    /\ HookFrame
    /\ asyncOps' = [asyncOps EXCEPT !.initialize =
                        IF isMounted THEN "getStatus" ELSE "done"]
    /\ UNCHANGED <<scanInProgress, hookState, hookData, runs, techHeld,
                   isMounted, lateSetters>>

\* initialize() after `await nfcManager.getStatus()`: setNfcStatus(status)
InitializeStatus ==
    /\ asyncOps.initialize = "getStatus"
    /\ HookFrame
    /\ asyncOps' = [asyncOps EXCEPT !.initialize = "done"]
    /\ Invoke({"setNfcStatus"})
    /\ UNCHANGED <<scanInProgress, hookState, hookData, runs, techHeld, isMounted>>

\* The effect's cleanup: the flags drop and nfcManager.cancelScan() is called
unmount ==
    /\ isMounted
    /\ HookFrame
    /\ isMounted' = FALSE
    /\ techHeld' = FALSE
    /\ runs' = cancelTechnologyRequest(runs)
    /\ UNCHANGED <<scanInProgress, hookState, hookData, asyncOps, lateSetters>>

\* startScan up to its first await
startScan ==
    /\ isMounted
    /\ Len(runs) < MaxScans
    /\ HookFrame
    /\ IF scanInProgress
       THEN UNCHANGED hookVars
       ELSE /\ scanInProgress' = TRUE
            /\ hookState' = "scanning"
            /\ hookData' = [tag |-> "null", transponder |-> "undefined",
                            error |-> "null"]
            /\ runs' = Append(runs, Run("status", FALSE, "none"))
            /\ UNCHANGED <<techHeld, isMounted, asyncOps, lateSetters>>

\* getStatus returned: an unusable NFC ends the run, otherwise
\* scanWithDetection -> scanTag(true) checks the status again and requests
\* the technology
StatusChecked(i) ==
    /\ runs[i].phase = "status"
    /\ HookFrame
    /\ UNCHANGED <<isMounted, asyncOps, lateSetters>>
    /\ \E status \in {"ok", "disabledSince", "NFC_NOT_SUPPORTED", "NFC_NOT_ENABLED"} :
          IF status = "ok"
          THEN /\ runs' = [runs EXCEPT ![i].phase = "request"]
               /\ techHeld' = TRUE
               /\ UNCHANGED <<scanInProgress, hookState, hookData>>
          ELSE IF status = "disabledSince"
          THEN /\ runs' = [runs EXCEPT ![i].phase = "cleanup",
                                       ![i].out = "NFC_NOT_ENABLED"]
               /\ UNCHANGED <<scanInProgress, hookState, hookData, techHeld>>
          ELSE /\ runs' = [runs EXCEPT ![i] = Run("finished", FALSE, "none")]
               /\ IF isMounted
                  THEN /\ hookState' = "error"
                       /\ hookData' = [hookData EXCEPT !.error = status]
                  ELSE UNCHANGED <<hookState, hookData>>
               /\ scanInProgress' = FALSE
               /\ UNCHANGED techHeld

\* requestTechnology / getTag settle: a tag, no tag, or a rejected request
TagRead(i) ==
    /\ runs[i].phase = "request"
    /\ HookFrame
    /\ UNCHANGED <<scanInProgress, hookState, hookData, techHeld,
                   isMounted, asyncOps, lateSetters>>
    /\ IF runs[i].cancelled
       THEN runs' = [runs EXCEPT ![i].phase = "cleanup",
                                 ![i].out = categorizeError("cancelled")]
       ELSE \E outcome \in {"tag", "noTag", "tagLost", "timeout", "permission"} :
               IF outcome = "tag"
               THEN runs' = [runs EXCEPT ![i].phase = "detect"]
               ELSE runs' = [runs EXCEPT ![i].phase = "cleanup",
                                 ![i].out = categorizeError(outcome)]

\* detectFn returned the transponder, returned null (detectChip reported a
\* failure) or threw: scanWithDetection has {tag, detection} or {tag}
DetectionReturns(i) ==
    /\ runs[i].phase = "detect"
    /\ HookFrame
    /\ UNCHANGED <<scanInProgress, hookState, hookData, techHeld,
                   isMounted, asyncOps, lateSetters>>
    /\ \E detection \in {"transponder", "null", "undefined"} :
          runs' = [runs EXCEPT ![i].phase = "cleanup", ![i].out = detection]

\* A finally that leaves the request of a failed scan alone
ReleaseSession_OnSuccess(i) ==
    /\ runs[i].phase = "cleanup"
    /\ HookFrame
    /\ UNCHANGED <<scanInProgress, hookState, hookData,
                   isMounted, asyncOps, lateSetters>>
    /\ IF runs[i].out \in {"transponder", "null", "undefined"}
       THEN /\ techHeld' = FALSE
            /\ runs' = [cancelTechnologyRequest(runs) EXCEPT ![i].phase = "settle"]
       ELSE /\ UNCHANGED techHeld
            /\ runs' = [runs EXCEPT ![i].phase = "settle"]

\* finally { await this.cancelScan() }
ReleaseSession(i) ==
    /\ runs[i].phase = "cleanup"
    /\ HookFrame
    /\ UNCHANGED <<scanInProgress, hookState, hookData,
                   isMounted, asyncOps, lateSetters>>
    /\ techHeld' = FALSE
    /\ runs' = [cancelTechnologyRequest(runs) EXCEPT ![i].phase = "settle"]

\* A startScan that returns on an unmounted component before its try block
RunSettles_ReturnUnmounted(i) ==
    /\ runs[i].phase = "settle"
    /\ HookFrame
    /\ UNCHANGED <<techHeld, isMounted, asyncOps, lateSetters>>
    /\ runs' = [runs EXCEPT ![i] = Run("finished", FALSE, "none")]
    /\ IF ~isMounted
       THEN UNCHANGED <<scanInProgress, hookState, hookData>>
       ELSE /\ scanInProgress' = FALSE
            /\ IF runs[i].out = "SCAN_CANCELLED"
               THEN hookState' = "idle" /\ UNCHANGED hookData
               ELSE IF runs[i].out \in {"transponder", "null", "undefined"}
               THEN /\ hookState' = "success"
                    /\ hookData' = [hookData EXCEPT !.tag = "tag",
                           !.transponder = IF runs[i].out = "undefined"
                                           THEN "null" ELSE runs[i].out]
               ELSE /\ hookState' = "error"
                    /\ hookData' = [hookData EXCEPT !.error = runs[i].out]

\* A startScan that takes a scan without a detection for a failed scan
RunSettles_ErrorWithoutDetection(i) ==
    /\ runs[i].phase = "settle"
    /\ HookFrame
    /\ UNCHANGED <<techHeld, isMounted, asyncOps, lateSetters>>
    /\ runs' = [runs EXCEPT ![i] = Run("finished", FALSE, "none")]
    /\ scanInProgress' = FALSE
    /\ IF ~isMounted
       THEN UNCHANGED <<hookState, hookData>>
       ELSE IF runs[i].out = "SCAN_CANCELLED"
       THEN hookState' = "idle" /\ UNCHANGED hookData
       ELSE IF runs[i].out = "transponder"
       THEN /\ hookState' = "success"
            /\ hookData' = [hookData EXCEPT !.tag = "tag",
                                            !.transponder = runs[i].out]
       ELSE /\ hookState' = "error"
            /\ hookData' = [hookData EXCEPT !.error =
                   IF runs[i].out \in {"null", "undefined"} THEN "UNKNOWN"
                   ELSE runs[i].out]

\* startScan after scanWithDetection: nothing on an unmounted component,
\* otherwise the result goes to the hook state (result.detection ?? null);
\* finally { scanInProgress.current = false }
RunSettles(i) ==
    /\ runs[i].phase = "settle"
    /\ HookFrame
    /\ UNCHANGED <<techHeld, isMounted, asyncOps, lateSetters>>
    /\ runs' = [runs EXCEPT ![i] = Run("finished", FALSE, "none")]
    /\ scanInProgress' = FALSE
    /\ IF ~isMounted
       THEN UNCHANGED <<hookState, hookData>>
       ELSE IF runs[i].out = "SCAN_CANCELLED"
       THEN hookState' = "idle" /\ UNCHANGED hookData
       ELSE IF runs[i].out \in {"transponder", "null", "undefined"}
       THEN /\ hookState' = "success"
            /\ hookData' = [hookData EXCEPT !.tag = "tag",
                   !.transponder = IF runs[i].out = "undefined"
                                   THEN "null" ELSE runs[i].out]
       ELSE /\ hookState' = "error"
            /\ hookData' = [hookData EXCEPT !.error = runs[i].out]

\* cancelScan up to its await: nfcManager.cancelScan() drops the technology
cancelScan ==
    /\ isMounted
    /\ ~asyncOps.cancelScan
    /\ HookFrame
    /\ techHeld' = FALSE
    /\ runs' = [i \in 1..Len(runs) |->
                  IF InFlight(runs[i])
                  THEN [cancelTechnologyRequest(runs)[i] EXCEPT
                           !.hookCancel = "requested"]
                  ELSE runs[i]]
    /\ asyncOps' = [asyncOps EXCEPT !.cancelScan = TRUE]
    /\ UNCHANGED <<scanInProgress, hookState, hookData, isMounted, lateSetters>>

\* cancelScan after its await: the flag and, when mounted, the state clear
CancelCompletes ==
    /\ asyncOps.cancelScan
    /\ HookFrame
    /\ asyncOps' = [asyncOps EXCEPT !.cancelScan = FALSE]
    /\ scanInProgress' = FALSE
    /\ IF isMounted
       THEN /\ hookState' = "idle"
            /\ hookData' = [hookData EXCEPT !.error = "null"]
       ELSE UNCHANGED <<hookState, hookData>>
    /\ runs' = [i \in 1..Len(runs) |->
                  IF runs[i].hookCancel = "requested"
                  THEN [runs[i] EXCEPT !.hookCancel = "completed"]
                  ELSE runs[i]]
    /\ UNCHANGED <<techHeld, isMounted, lateSetters>>

reset ==
    /\ isMounted
    /\ HookFrame
    /\ hookState' = "idle"
    /\ hookData' = [tag |-> "null", transponder |-> "undefined", error |-> "null"]
    /\ UNCHANGED <<scanInProgress, runs, techHeld, isMounted, asyncOps, lateSetters>>

\* openSettings up to its awaits (openNFCSettings, getStatus)
openSettings ==
    /\ isMounted
    /\ ~asyncOps.openSettings
    /\ HookFrame
    /\ asyncOps' = [asyncOps EXCEPT !.openSettings = TRUE]
    /\ UNCHANGED <<scanInProgress, hookState, hookData, runs, techHeld,
                   isMounted, lateSetters>>

\* openSettings after its awaits: setNfcStatus on a mounted component only
SettingsReturn ==
    /\ asyncOps.openSettings
    /\ HookFrame
    /\ asyncOps' = [asyncOps EXCEPT !.openSettings = FALSE]
    /\ IF isMounted THEN Invoke({"setNfcStatus"}) ELSE UNCHANGED lateSetters
    /\ UNCHANGED <<scanInProgress, hookState, hookData, runs, techHeld, isMounted>>

NextScan ==
    \/ unmount
    \/ startScan
    \/ cancelScan
    \/ CancelCompletes
    \/ reset
    \/ \E i \in 1..Len(runs) : StatusChecked(i)
    \/ \E i \in 1..Len(runs) : TagRead(i)
    \/ \E i \in 1..Len(runs) : DetectionReturns(i)
    \/ \E i \in 1..Len(runs) : ReleaseSession(i)
    \/ \E i \in 1..Len(runs) : RunSettles(i)

SpecScan == InitScan /\ [][NextScan]_vars

\* initialize and openSettings touch nfcStatus only; with them the hook has
\* every asynchronous operation of the component
NextMount ==
    \/ NextScan
    \/ InitializeInited
    \/ InitializeStatus
    \/ openSettings
    \/ SettingsReturn

SpecMount == InitScan /\ [][NextMount]_vars


(***************************************************************************)
(* NTAG 5 sensor implants (ntag5sensor.ts)                                 *)
(*                                                                         *)
(* detectNtag5SensorImplant is followed command by command: every vendor   *)
(* custom command is one exchange whose reply is a byte string or an       *)
(* exception, and the position of the function sits in sensor.pc.          *)
(***************************************************************************)
NXP_EH == [ENABLE |-> \H01, TRIGGER |-> \H08, LOAD_OK |-> \H80]
NXP_I2C_M == [TRANS_STATUS_MASK |-> \H06, TRANS_STATUS_SUCCESS |-> \H06]
SENSOR_ADDRESSES == [PRIMARY |-> \H48, TEMPTRESS_1 |-> \H49, TEMPTRESS_2 |-> \H4A]
TMP117_DEVICE_ID == \H0117
TMP117_DEVICE_ID_MASK == \H0FFF
TMP119_DEVICE_ID == \H0119
VK_THERMO_AFI == \H54
pollIntervalMs == 100
DefaultTimeoutMs == 5000
maxRetries == 3

\* JavaScript a & b on non-negative numbers
RECURSIVE BitAnd(_, _)
BitAnd(a, b) ==
    IF a = 0 \/ b = 0 THEN 0
    ELSE (a % 2) * (b % 2) + 2 * BitAnd(a \div 2, b \div 2)

\* Math.ceil(a / b) for a >= 0, b > 0
CeilDiv(a, b) == (a + b - 1) \div b

NoSensorType == "null"
NoTemperature == [present |-> FALSE]

\* VK_THERMO_DSFID[dsfid]
VK_THERMO_DSFID(dsfid) ==
    CASE dsfid = \H09 -> [sensorType |-> "tmp112", model |-> "112"]
      [] dsfid = \H0A -> [sensorType |-> "tmp117", model |-> "117"]
      [] dsfid = \H0B -> [sensorType |-> "tmp119", model |-> "119"]
      [] OTHER -> [sensorType |-> "unknown", model |-> ""]

NotDetected ==
    [detected |-> FALSE, deviceType |-> "unknown", sensorType |-> "unknown",
     hasDualSensors |-> FALSE, implantName |-> NoName, signature |-> FALSE,
     temperature |-> NoTemperature, temperature2 |-> NoTemperature]

\* null when the AFI is not the VK Thermo one
detectThermoFromSystemInfo(afi, dsfid) ==
    IF afi # VK_THERMO_AFI THEN NotDetected
    ELSE [detected |-> TRUE, deviceType |-> "thermo",
          sensorType |-> IF dsfid # NoNum THEN VK_THERMO_DSFID(dsfid).sensorType
                         ELSE "unknown",
          hasDualSensors |-> FALSE,
          implantName |-> IF dsfid # NoNum /\ VK_THERMO_DSFID(dsfid).model # ""
                          THEN "VK Thermo " \o VK_THERMO_DSFID(dsfid).model
                          ELSE "VK Thermo",
          signature |-> FALSE,
          temperature |-> NoTemperature, temperature2 |-> NoTemperature]

\* checkEhReady, on the reply to READ_CONFIG(EH_CONFIG_REG)
checkEhReady(response) ==
    IF response.threw THEN "tag_lost"
    ELSE IF Len(response.bytes) >= 1
         THEN IF BitAnd(response.bytes[1], NXP_EH.LOAD_OK) # 0
              THEN "load_ok" ELSE "waiting"
         ELSE "waiting"

\* i2cCheckResult, on the reply to READ_CONFIG(I2C_M_STATUS_REG)
i2cCheckResult(response) ==
    IF response.threw THEN FALSE
    ELSE IF Len(response.bytes) < 1 THEN FALSE
         ELSE BitAnd(response.bytes[1], NXP_I2C_M.TRANS_STATUS_MASK)
                  = NXP_I2C_M.TRANS_STATUS_SUCCESS

\* i2cRead, on the reply to READ_SRAM; null is the empty sequence
i2cRead(sramData, numBytes) ==
    IF sramData.threw THEN <<>>
    ELSE IF Len(sramData.bytes) >= numBytes
         THEN SubSeq(sramData.bytes, 1, numBytes)
         ELSE sramData.bytes

\* identifySensorAtAddress, on the outcome of its pointer write and its read
identifySensorAtAddress(i2cAddr, writeOk, idData) ==
    LET fallback == IF i2cAddr = SENSOR_ADDRESSES.PRIMARY
                    THEN "tmp112" ELSE NoSensorType
        maskedId == BitAnd(idData[1] * 256 + idData[2], TMP117_DEVICE_ID_MASK)
    IN  IF ~writeOk THEN fallback
        ELSE IF Len(idData) < 2 THEN fallback
        ELSE IF maskedId = TMP119_DEVICE_ID THEN "tmp119"
        ELSE IF maskedId = TMP117_DEVICE_ID THEN "tmp117"
        ELSE fallback

\* Temperatures are exact multiples of 1/640 degree and kept as such.
\* tmp117RawToCelsius: 16-bit two's complement, 0.0078125 = 5/640 degree
\* per LSB
tmp117RawToCelsius(raw) ==
    LET value == IF raw > \H7FFF THEN raw - 65536 ELSE raw
    IN  5 * value

\* tmp112RawToCelsius: 12-bit value left-aligned, 0.0625 = 40/640 degree
\* per LSB
tmp112RawToCelsius(raw) ==
    LET shifted == raw \div 16
        value == IF shifted > \H7FF THEN shifted - 4096 ELSE shifted
    IN  40 * value

celsiusToFahrenheit(c) == (c * 9) \div 5 + 32 * 640

\* Math.round(x * 100), the reading in hundredths of a degree
RoundHundredths(x) == (100 * x + 320) \div 640

\* The TemperatureReading readTemperature builds from a raw register value
\* (in hundredths of a degree), with the value it was converted from
TemperatureOf(raw, sensorType) ==
    LET celsius == IF sensorType = "tmp112" THEN tmp112RawToCelsius(raw)
                   ELSE tmp117RawToCelsius(raw)
    IN  [present |-> TRUE, raw |-> raw,
         celsius |-> RoundHundredths(celsius),
         fahrenheit |-> RoundHundredths(celsiusToFahrenheit(celsius))]

\* Replies of the tag to the vendor commands
EhStatusResponses == {Threw, Reply(<<>>), Reply(<<\H00>>), Reply(<<\H08>>),
                      Reply(<<\H80>>), Reply(<<\H88>>)}
I2cStatusResponses == {Threw, Reply(<<>>), Reply(<<\H00>>), Reply(<<\H02>>),
                       Reply(<<\H06>>)}
SramResponses == {Threw, Reply(<<>>), Reply(<<\H0C>>),
                  Reply(<<\H00, \H00, \H00, \H00>>),
                  Reply(<<\HFF, \HFF, \HFF, \HFF>>),
                  Reply(<<\H0C, \H80, \H00, \H00>>),
                  Reply(<<\H01, \H17, \H00, \H00>>),
                  Reply(<<\H21, \H19, \H00, \H00>>)}

\* The calls detectNtag5SensorImplant can get
AfiValues == {NoNum, VK_THERMO_AFI}
DsfidValues == {NoNum, \H09, \H0A, \H00}
TimeoutValues == {50, 250, DefaultTimeoutMs}

\* The last vendor write: what it wrote, whether the transport threw, what
\* the status read-back said and whether the caller went on as after a
\* successful write
NoWrite == [what |-> "none", threw |-> FALSE, readBack |-> "none",
            accepted |-> FALSE]
Write(what, threw, readBack, accepted) ==
    [what |-> what, threw |-> threw, readBack |-> readBack,
     accepted |-> accepted]

SensorCall(afi, dsfid, skipI2cProbing, timeoutMs) ==
    [pc |-> "start", afi |-> afi, dsfid |-> dsfid,
     skipI2cProbing |-> skipI2cProbing, timeoutMs |-> timeoutMs,
     thermoResult |-> NotDetected,
     triggerSent |-> FALSE, polls |-> 0, waitedMs |-> 0, loadOk |-> FALSE,
     enableSent |-> FALSE, ehOk |-> "pending",
     write |-> NoWrite, i2cUsed |-> FALSE,
     sensors |-> <<>>, responded |-> <<>>,
     toRead |-> <<>>, attempt |-> 0, readings |-> <<>>,
     result |-> NotDetected]

InitSensor ==
    /\ rawData = Reading({"NfcV"}, NoNum, NoBytes, NoBytes, NoNum, 8)
    /\ pc = "sensor"
    /\ stepLog = <<>>
    /\ probeLog = <<>>
    /\ transport = "open"
    /\ fault = NoFault
    /\ loc = NoLoc
    /\ result = NoResult
    /\ scanInProgress = FALSE
    /\ hookState = "idle"
    /\ hookData = NoData
    /\ runs = NoRuns
    /\ techHeld = FALSE
    /\ isMounted = TRUE
    /\ asyncOps = NoOps
    /\ lateSetters = {}
    /\ io = NoIo
    /\ \E afi \in AfiValues, dsfid \in DsfidValues, skip \in BOOLEAN,
          timeoutMs \in TimeoutValues :
          sensor = SensorCall(afi, dsfid, skip, timeoutMs)

SensorFrame == UNCHANGED <<detVars, hookVars, io>>

\* return of detectNtag5SensorImplant / detectNtag5Sensors
SensorReturn(s, res) == [s EXCEPT !.pc = "done", !.result = res]

\* detectNtag5Sensors: the model number in the name of a VK Thermo
sensorName(sensorType) ==
    CASE sensorType = "tmp112" -> "112"
      [] sensorType = "tmp117" -> "117"
      [] sensorType = "tmp119" -> "119"
      [] OTHER -> ""

\* The result once every queued readTemperature has returned
SensorResultWith(s, readings) ==
    IF s.thermoResult.detected
    THEN [s.thermoResult EXCEPT !.temperature = readings[1]]
    ELSE IF Len(readings) = 2
    THEN [detected |-> TRUE, deviceType |-> "temptress",
          sensorType |-> s.sensors[2], hasDualSensors |-> TRUE,
          implantName |-> "Temptress", signature |-> FALSE,
          temperature |-> readings[1], temperature2 |-> readings[2]]
    ELSE [detected |-> TRUE, deviceType |-> "thermo",
          sensorType |-> s.sensors[1], hasDualSensors |-> FALSE,
          implantName |-> "VK Thermo " \o sensorName(s.sensors[1]),
          signature |-> FALSE,
          temperature |-> readings[1], temperature2 |-> NoTemperature]

\* What the caller of enableEnergyHarvesting does with its verdict; the
\* loop counter of a completed handshake is not kept
AfterEnergyHarvesting(s, ehOk) ==
    LET t == IF ehOk THEN [s EXCEPT !.ehOk = "true", !.polls = 0, !.waitedMs = 0]
             ELSE [s EXCEPT !.ehOk = "false"]
    IN  IF s.thermoResult.detected
        THEN IF ehOk
             THEN [t EXCEPT !.pc = "temp", !.attempt = 0,
                            !.toRead = <<[address |-> SENSOR_ADDRESSES.PRIMARY,
                                          sensorType |-> s.thermoResult.sensorType]>>]
             ELSE SensorReturn(t, s.thermoResult)
        ELSE IF ehOk
             THEN [t EXCEPT !.pc = "identify"]
             ELSE SensorReturn(t, NotDetected)

\* detectNtag5SensorImplant up to its first command
SensorStart ==
    /\ sensor.pc = "start"
    /\ SensorFrame
    /\ LET thermoResult == detectThermoFromSystemInfo(sensor.afi, sensor.dsfid)
       IN  sensor' =
             IF thermoResult.detected
             THEN [sensor EXCEPT !.pc = "signature",
                                 !.thermoResult = thermoResult]
             ELSE IF sensor.skipI2cProbing
             THEN SensorReturn(sensor, NotDetected)
             ELSE [sensor EXCEPT !.pc = "ehTrigger"]

\* readThermoSignature: READ_CONFIG reads, all failures swallowed
ReadSignature ==
    /\ sensor.pc = "signature"
    /\ SensorFrame
    /\ \E signature \in BOOLEAN :
          sensor' = [sensor EXCEPT !.pc = "ehTrigger",
                                   !.thermoResult.signature = signature]

\* enableEnergyHarvesting, step 1: WRITE_CONFIG(TRIGGER), exception swallowed
EhTrigger ==
    /\ sensor.pc = "ehTrigger"
    /\ SensorFrame
    /\ \E threw \in BOOLEAN :
          LET s == [sensor EXCEPT !.triggerSent = TRUE,
                                  !.write = Write("trigger", threw, "none", FALSE)]
          IN  sensor' = IF CeilDiv(s.timeoutMs, pollIntervalMs) = 0
                        THEN AfterEnergyHarvesting(s, FALSE)
                        ELSE [s EXCEPT !.pc = "ehPoll"]

\* A polling loop that allows one turn too many
EhPoll_OneTooMany ==
    /\ sensor.pc = "ehPoll"
    /\ SensorFrame
    /\ \E response \in EhStatusResponses :
          LET maxPolls == CeilDiv(sensor.timeoutMs, pollIntervalMs)
              status == checkEhReady(response)
              s == [sensor EXCEPT !.polls = @ + 1,
                                  !.waitedMs = @ + pollIntervalMs]
          IN  sensor' =
                CASE status = "load_ok" ->
                       [s EXCEPT !.pc = "ehEnable", !.loadOk = TRUE,
                                 !.write.readBack = "confirmed",
                                 !.write.accepted = TRUE]
                  [] status = "tag_lost" -> AfterEnergyHarvesting(s, FALSE)
                  [] OTHER -> IF s.polls <= maxPolls THEN s
                              ELSE AfterEnergyHarvesting(s, FALSE)

\* A polling loop that goes on to the enable step when it times out
EhPoll_EnablingOnTimeout ==
    /\ sensor.pc = "ehPoll"
    /\ SensorFrame
    /\ \E response \in EhStatusResponses :
          LET maxPolls == CeilDiv(sensor.timeoutMs, pollIntervalMs)
              status == checkEhReady(response)
              s == [sensor EXCEPT !.polls = @ + 1,
                                  !.waitedMs = @ + pollIntervalMs]
          IN  sensor' =
                CASE status = "load_ok" ->
                       [s EXCEPT !.pc = "ehEnable", !.loadOk = TRUE,
                                 !.write.readBack = "confirmed",
                                 !.write.accepted = TRUE]
                  [] status = "tag_lost" -> AfterEnergyHarvesting(s, FALSE)
                  [] OTHER -> IF s.polls < maxPolls THEN s
                              ELSE [s EXCEPT !.pc = "ehEnable"]

\* enableEnergyHarvesting, one turn of the polling loop
EhPoll ==
    /\ sensor.pc = "ehPoll"
    /\ SensorFrame
    /\ \E response \in EhStatusResponses :
          LET maxPolls == CeilDiv(sensor.timeoutMs, pollIntervalMs)
              status == checkEhReady(response)
              s == [sensor EXCEPT !.polls = @ + 1,
                                  !.waitedMs = @ + pollIntervalMs]
          IN  sensor' =
                CASE status = "load_ok" ->
                       [s EXCEPT !.pc = "ehEnable", !.loadOk = TRUE,
                                 !.write.readBack = "confirmed",
                                 !.write.accepted = TRUE]
                  [] status = "tag_lost" -> AfterEnergyHarvesting(s, FALSE)
                  [] OTHER -> IF s.polls < maxPolls THEN s
                              ELSE AfterEnergyHarvesting(s, FALSE)

\* enableEnergyHarvesting, step 2: WRITE_CONFIG(TRIGGER | ENABLE), exception
\* swallowed, delay(200), return true
EhEnable ==
    /\ sensor.pc = "ehEnable"
    /\ SensorFrame
    /\ \E threw \in BOOLEAN :
          sensor' = AfterEnergyHarvesting(
                        [sensor EXCEPT !.enableSent = TRUE,
                                       !.write = Write("enable", threw, "none", TRUE)],
                        TRUE)

\* The sensors detectNtag5Sensors reads once all three addresses are probed
SensorsToRead(sensors) ==
    IF sensors[2] # NoSensorType /\ sensors[3] # NoSensorType
    THEN <<[address |-> SENSOR_ADDRESSES.TEMPTRESS_1, sensorType |-> sensors[2]],
           [address |-> SENSOR_ADDRESSES.TEMPTRESS_2, sensorType |-> sensors[3]]>>
    ELSE IF sensors[1] # NoSensorType
    THEN <<[address |-> SENSOR_ADDRESSES.PRIMARY, sensorType |-> sensors[1]]>>
    ELSE <<>>

ProbeAddresses == <<SENSOR_ADDRESSES.PRIMARY, SENSOR_ADDRESSES.TEMPTRESS_1,
                    SENSOR_ADDRESSES.TEMPTRESS_2>>

\* i2cWrite: WRITE_I2C (exception swallowed), then the status read-back
i2cWrite(s, threw, status) ==
    [s EXCEPT !.i2cUsed = TRUE,
              !.write = Write("pointer", threw,
                              IF i2cCheckResult(status) THEN "confirmed"
                              ELSE "denied",
                              i2cCheckResult(status))]

\* detectNtag5Sensors: identifySensorAtAddress at the next address; the
\* Device ID is read only after a confirmed pointer write, and `responded`
\* keeps whether the I2C transaction at the address was acknowledged
IdentifySensor ==
    /\ sensor.pc = "identify"
    /\ SensorFrame
    /\ \E threw \in BOOLEAN, status \in I2cStatusResponses :
       LET s == i2cWrite(sensor, threw, status) IN
       \E sramData \in (IF s.write.accepted THEN SramResponses ELSE {Threw}) :
          LET i2cAddr == ProbeAddresses[Len(sensor.sensors) + 1]
              type == identifySensorAtAddress(i2cAddr, s.write.accepted,
                                              i2cRead(sramData, 2))
              sensors == Append(sensor.sensors, type)
              t == [s EXCEPT !.sensors = sensors,
                             !.responded = Append(@, s.write.accepted)]
          IN  sensor' =
                IF Len(sensors) < Len(ProbeAddresses) THEN t
                ELSE IF SensorsToRead(sensors) = <<>>
                THEN SensorReturn(t, NotDetected)
                ELSE [t EXCEPT !.pc = "temp", !.attempt = 0,
                               !.toRead = SensorsToRead(sensors)]

\* readTemperature returns: the reading (or undefined) goes to its caller,
\* which reads the next sensor or returns its result
TemperatureReturns(s, reading) ==
    LET readings == Append(s.readings, reading)
        t == [s EXCEPT !.readings = readings, !.attempt = 0]
    IN  IF Len(readings) < Len(s.toRead) THEN t
        ELSE SensorReturn(t, SensorResultWith(t, readings))

\* readTemperature: continue, or fall out of the loop after maxRetries
NextAttempt(s) ==
    IF s.attempt + 1 < maxRetries THEN [s EXCEPT !.attempt = @ + 1]
    ELSE TemperatureReturns(s, NoTemperature)

\* 0x0000 or 0xFFFF: the sensor has likely not converted yet
Suspicious(raw) == raw = \H0000 \/ raw = \HFFFF

\* readTemperature from the register read on: i2cRead, the sanity check,
\* the conversion
ReadAndConvert(s, sensorType, sramData) ==
    LET data == i2cRead(sramData, 2)
        raw == data[1] * 256 + data[2]
        t == [s EXCEPT !.i2cUsed = TRUE]
    IN  IF Len(data) < 2 THEN NextAttempt(t)
        ELSE IF Suspicious(raw) /\ s.attempt < maxRetries - 1 THEN NextAttempt(t)
        ELSE TemperatureReturns(t, TemperatureOf(raw, sensorType))

\* readTemperature, one attempt on the sensor being read
TempAttempt ==
    /\ sensor.pc = "temp"
    /\ SensorFrame
    /\ LET current == sensor.toRead[Len(sensor.readings) + 1] IN
       IF current.sensorType # "tmp112" \/ sensor.attempt > 0
       THEN \E threw \in BOOLEAN, status \in I2cStatusResponses :
            LET s == i2cWrite(sensor, threw, status) IN
            IF ~s.write.accepted THEN sensor' = NextAttempt(s)
            ELSE \E sramData \in SramResponses :
                    sensor' = ReadAndConvert(s, current.sensorType, sramData)
       ELSE \E sramData \in SramResponses :
               sensor' = ReadAndConvert(sensor, current.sensorType, sramData)

NextSensor ==
    \/ SensorStart
    \/ ReadSignature
    \/ EhTrigger
    \/ EhPoll
    \/ EhEnable
    \/ IdentifySensor
    \/ TempAttempt

SpecSensor == InitSensor /\ [][NextSensor]_vars

(***************************************************************************)
(* Product catalog and matcher (data/products.ts, matching/matcher.ts)     *)
(***************************************************************************)
ChipFamily == {"NTAG", "MIFARE_CLASSIC", "MIFARE_DESFIRE", "MIFARE_PLUS",
               "ISO15693", "JAVACARD", "UNKNOWN"}

NTAG21X_COMPATIBLE == <<"NTAG213", "NTAG215", "NTAG216">>
NTAG_I2C_COMPATIBLE == <<"NTAG_I2C_1K", "NTAG_I2C_2K", "NTAG_I2C_PLUS_1K",
                         "NTAG_I2C_PLUS_2K">>
MIFARE_CLASSIC_COMPATIBLE == <<"MIFARE_CLASSIC_1K", "MIFARE_CLASSIC_4K",
                               "MIFARE_CLASSIC_MINI">>
DESFIRE_ALL == <<"DESFIRE_EV1", "DESFIRE_EV2", "DESFIRE_EV3">>
SLIX_COMPATIBLE == <<"SLIX", "SLIX2", "SLIX_S", "SLIX_L">>
ULTRALIGHT_COMPATIBLE == <<"ULTRALIGHT", "ULTRALIGHT_C", "ULTRALIGHT_EV1",
                           "ULTRALIGHT_NANO", "ULTRALIGHT_AES">>

Product(id, name, compatibleChips, canReceiveClone, exactMatch) ==
    [id |-> id, name |-> name, compatibleChips |-> compatibleChips,
     canReceiveClone |-> canReceiveClone, exactMatch |-> exactMatch]

PRODUCTS ==
    <<Product("xnt", "xNT", NTAG21X_COMPATIBLE \o NTAG_I2C_COMPATIBLE, TRUE, TRUE),
      Product("xsiid", "xSIID", NTAG21X_COMPATIBLE \o NTAG_I2C_COMPATIBLE, TRUE, TRUE),
      Product("xslx", "xSLX", SLIX_COMPATIBLE, TRUE, TRUE),
      Product("next", "NExT", NTAG21X_COMPATIBLE \o NTAG_I2C_COMPATIBLE, TRUE, TRUE),
      Product("next-v2", "NExT v2", NTAG21X_COMPATIBLE \o NTAG_I2C_COMPATIBLE, TRUE, TRUE),
      Product("xmagic", "xMagic", MIFARE_CLASSIC_COMPATIBLE, TRUE, FALSE),
      Product("xdf3", "xDF3", DESFIRE_ALL, FALSE, TRUE),
      Product("xm1", "xM1", MIFARE_CLASSIC_COMPATIBLE, TRUE, FALSE),
      Product("spark2", "VivoKey Spark 2",
              <<"NTAG424_DNA", "NTAG424_DNA_TT", "ICODE_DNA">>, FALSE, TRUE),
      Product("dnext", "dNExT", NTAG21X_COMPATIBLE \o NTAG_I2C_COMPATIBLE, TRUE, TRUE),
      Product("dug4t", "dUG4T",
              MIFARE_CLASSIC_COMPATIBLE \o ULTRALIGHT_COMPATIBLE, TRUE, FALSE),
      Product("flexnt", "flexNT", NTAG21X_COMPATIBLE \o NTAG_I2C_COMPATIBLE, TRUE, TRUE),
      Product("flexdf2", "flexDF2", DESFIRE_ALL, FALSE, TRUE),
      Product("flexm1-v2", "flexM1 v2", MIFARE_CLASSIC_COMPATIBLE, TRUE, FALSE),
      Product("apex-flex", "Apex Flex", <<"JCOP4", "JAVACARD_UNKNOWN">>, FALSE, TRUE),
      Product("flexsecure", "flexSecure", <<"JCOP4", "JAVACARD_UNKNOWN">>, FALSE, TRUE),
      Product("flexclass", "flexClass", <<>>, FALSE, FALSE),
      Product("flexug4", "flexUG4",
              MIFARE_CLASSIC_COMPATIBLE \o ULTRALIGHT_COMPATIBLE, TRUE, FALSE),
      Product("temptress", "Temptress", <<"NTAG5_BOOST", "NTAG5_LINK">>, FALSE, TRUE),
      Product("vk-thermo-112", "VivoKey Thermo 112",
              <<"NTAG5_BOOST", "NTAG5_LINK">>, FALSE, TRUE)>>

\* buildChipProductMap().get(chipType): the products that list the chip, in
\* catalog order (no product lists a chip twice); an absent key is the empty
\* list
getChipProductMap(chipType) ==
    SelectSeq(PRODUCTS, LAMBDA p : SeqIncludes(p.compatibleChips, chipType))

\* product.name.startsWith("xMagic") || startsWith("xM1") || startsWith("flexM1"),
\* over the names of the catalog
FourByteUidNames == {"xMagic", "xM1", "flexM1 v2"}

\* chip.rawData.uid.replaceAll(":", "").length
UidHexLength(uid) == Len(SelectSeq(uid, LAMBDA c : c # ":"))

ProductIds(products) == {products[i].id : i \in 1..Len(products)}

\* A family search that does not skip the direct matches
findFamilyMatches_NotExcluding(chipType, chipFamily, excludeProducts) ==
    SelectSeq(PRODUCTS, LAMBDA product :
        \E i \in 1..Len(product.compatibleChips) :
            getChipFamily(product.compatibleChips[i]) = chipFamily)

findFamilyMatches(chipType, chipFamily, excludeProducts) ==
    SelectSeq(PRODUCTS, LAMBDA product :
        /\ product.id \notin ProductIds(excludeProducts)
        /\ \E i \in 1..Len(product.compatibleChips) :
              getChipFamily(product.compatibleChips[i]) = chipFamily)

\* A matcher that recommends conversion only when nothing matched
matchChipToProducts_MatchesOnly(chip) ==
    LET chipType      == chip.type
        cloneable     == CHIP_CLONEABILITY(chipType)
        chipFamily    == getChipFamily(chipType)
        directMatches == getChipProductMap(chipType)
        exactMatches  == SelectSeq(directMatches, LAMBDA p : p.exactMatch)
        cloneTargets  ==
            SelectSeq(directMatches, LAMBDA p :
                /\ p.canReceiveClone /\ cloneable
                /\ ~(p.name \in FourByteUidNames
                     /\ UidHexLength(chip.rawData.uid) # 2 * 4))
        hasMatches    == Len(exactMatches) > 0 \/ Len(cloneTargets) > 0
    IN  [exactMatches |-> exactMatches,
         cloneTargets |-> cloneTargets,
         familyMatches |-> findFamilyMatches(chipType, chipFamily, directMatches),
         isCloneable |-> cloneable,
         cloneabilityNote |-> CHIP_CLONEABILITY_NOTE(chipType),
         conversionRecommended |-> ~hasMatches]

matchChipToProducts(chip) ==
    LET chipType      == chip.type
        cloneable     == CHIP_CLONEABILITY(chipType)
        chipFamily    == getChipFamily(chipType)
        directMatches == getChipProductMap(chipType)
        exactMatches  == SelectSeq(directMatches, LAMBDA p : p.exactMatch)
        cloneTargets  ==
            SelectSeq(directMatches, LAMBDA p :
                /\ p.canReceiveClone /\ cloneable
                /\ ~(p.name \in FourByteUidNames
                     /\ UidHexLength(chip.rawData.uid) # 2 * 4))
        hasMatches    == Len(exactMatches) > 0 \/ Len(cloneTargets) > 0
    IN  [exactMatches |-> exactMatches,
         cloneTargets |-> cloneTargets,
         familyMatches |-> findFamilyMatches(chipType, chipFamily, directMatches),
         isCloneable |-> cloneable,
         cloneabilityNote |-> CHIP_CLONEABILITY_NOTE(chipType),
         conversionRecommended |-> ~hasMatches \/ ~cloneable]

getCloneTargetsForChip(chipType) ==
    IF ~CHIP_CLONEABILITY(chipType) THEN <<>>
    ELSE SelectSeq(getChipProductMap(chipType), LAMBDA p : p.canReceiveClone)

\* The scanned chips given to the matcher: every chip identity with a UID of
\* 0, 4, 7, 8 or 10 bytes, as tagEventToRawData formats it
ScannedUids ==
    {BytesToHex(<<>>),
     BytesToHex(<<\H04, \HA1, \HB2, \HC3>>),
     BytesToHex(<<\H04, \HA1, \HB2, \HC3, \HD4, \HE5, \HF6>>),
     BytesToHex(<<\HE0, \H04, \H01, \H08, \HA1, \HB2, \HC3, \HD4>>),
     BytesToHex(<<\H04, \HA1, \HB2, \HC3, \HD4, \HE5, \HF6, \H07, \H18, \H29>>)}

ScannedChips ==
    {[type |-> type, family |-> getChipFamily(type),
      isCloneable |-> CHIP_CLONEABILITY(type), rawData |-> [uid |-> uid]] :
        type \in ChipType, uid \in ScannedUids}

(***************************************************************************)
(* The pure functions on their own: the codec, the detectors, the matcher  *)
(* and the family lookup, each applied to one input                        *)
(***************************************************************************)
MaxApduLen == 3

ApduBytes == {\H00, \H04, \H6A, \H82, \H90, \H91, \HAF}
ApduResponses == UNION {[1..n -> ApduBytes] : n \in 0..MaxApduLen}

\* GET_VERSION frames of the NTAG DNA family over subtypes and storage sizes
DnaFrames ==
    {DesfireFrame(\H04, \H04, subtype, \H30, storage, \H91, sw2) :
        subtype \in {\H02, \H04, \H05, \H09},
        storage \in {\H0E, \H0F, \H11, \H13},
        sw2 \in {\HAF, \H00}}

NoOutput == "pending"
Call(fn, input) ==
    [fn |-> fn, input |-> input, applied |-> FALSE, output |-> NoOutput]

\* System info without IC reference, over block counts (1..256) and block
\* sizes (1..32) as getIso15693SystemInfo parses them
MemoryOnlySysInfo ==
    {[SysInfo(NoNum, blockCount) EXCEPT !.blockSize = blockSize] :
        blockCount \in {16, 28, 79, 101, 120, 200, 256},
        blockSize \in {1, 3, 4, 8, 32}}

\* Cards for the JavaCard probe: every combination of the memory applet,
\* Fidesmo, PPSE and two payment networks, and a card whose SELECTs throw
ProbedAids == {"javacardMemory", "fidesmo", "ppse", "visaCredit", "mastercard"}

ProbedCards == {Selects(present) : present \in SUBSET ProbedAids}
               \cup {AllSelectsThrow}

\* detectChip 3c around detectJavaCard: the detector's result, the implant
\* name and the confidence given to createTransponder
NoConfidence == "none"
JavaCardIdentity(cm, cplcResp, sel) ==
    LET jcResult == detectJavaCard(cm, cplcResp, sel)
        identified == jcResult.success /\ jcResult.chipType # NoChip
    IN  [jcResult |-> jcResult,
         implantName |-> IF identified
                         THEN getJavacardImplantName(jcResult.installedApplets)
                         ELSE NoName,
         confidence |-> IF identified
                        THEN JavaCardConfidence(jcResult.chipType)
                        ELSE NoConfidence]

\* The calls: one function, one input
Called ==
    \/ \E response \in ApduResponses :
          io = Call("parseApduResponse", [response |-> response])
    \/ \E r1 \in DesfireResponses \cup DnaFrames, r2 \in DesfireContinuations :
          io = Call("detectDesfire", [r1 |-> r1, r2 |-> r2])
    \/ \E tag \in VicinityTags,
          sysInfo \in SysInfoResponses \cup MemoryOnlySysInfo,
          tag2 \in {NoTag, TagThrew, Tag(MsbUid(\H04, \H01))} :
          io = Call("detectIso15693",
                    [tag |-> tag, sysInfo |-> sysInfo, tag2 |-> tag2])
    \/ \E cm \in CardManagerResponses, cplcResp \in CplcResponses,
          sel \in ProbedCards :
          io = Call("detectJavaCard",
                    [cm |-> cm, cplcResp |-> cplcResp, sel |-> sel])
    \/ \E chip \in ScannedChips :
          io = Call("matchChipToProducts", [chip |-> chip])
    \/ \E chip \in ScannedChips :
          io = Call("getCloneTargetsForChip", [chip |-> chip])
    \/ \E type \in ChipType :
          io = Call("getChipFamily", [type |-> type])

InitFunctions ==
    /\ rawData = Reading({"NfcA"}, \H00, NoBytes, NoBytes, NoNum, 7)
    /\ pc = "classic"
    /\ stepLog = <<>>
    /\ probeLog = <<>>
    /\ transport = "open"
    /\ fault = NoFault
    /\ loc = NoLoc
    /\ result = NoResult
    /\ scanInProgress = FALSE
    /\ hookState = "idle"
    /\ hookData = NoData
    /\ runs = NoRuns
    /\ techHeld = FALSE
    /\ isMounted = TRUE
    /\ asyncOps = NoOps
    /\ lateSetters = {}
    /\ sensor = NoSensor
    /\ Called

Returns(output) ==
    /\ ~io.applied
    /\ io' = [io EXCEPT !.applied = TRUE, !.output = output]
    /\ UNCHANGED <<detVars, hookVars, sensor>>

ApplyParseApduResponse ==
    /\ io.fn = "parseApduResponse"
    /\ Returns(parseApduResponse(io.input.response))

ApplyDetectDesfire ==
    /\ io.fn = "detectDesfire"
    /\ Returns(detectDesfire(io.input.r1, io.input.r2))

ApplyDetectIso15693 ==
    /\ io.fn = "detectIso15693"
    /\ Returns(detectIso15693(io.input.tag, io.input.sysInfo, io.input.tag2))

ApplyDetectJavaCard ==
    /\ io.fn = "detectJavaCard"
    /\ Returns(JavaCardIdentity(io.input.cm, io.input.cplcResp, io.input.sel))

ApplyMatchChipToProducts ==
    /\ io.fn = "matchChipToProducts"
    /\ Returns(matchChipToProducts(io.input.chip))

\* The caller has the scanned chip and passes its type
ApplyGetCloneTargetsForChip ==
    /\ io.fn = "getCloneTargetsForChip"
    /\ Returns([cloneTargets |-> getCloneTargetsForChip(io.input.chip.type)])

ApplyGetChipFamily ==
    /\ io.fn = "getChipFamily"
    /\ Returns(getChipFamily(io.input.type))

NextFunctions ==
    \/ ApplyParseApduResponse
    \/ ApplyDetectDesfire
    \/ ApplyDetectIso15693
    \/ ApplyDetectJavaCard
    \/ ApplyMatchChipToProducts
    \/ ApplyGetCloneTargetsForChip
    \/ ApplyGetChipFamily

SpecFunctions == InitFunctions /\ [][NextFunctions]_vars

(***************************************************************************)
(* The loops of the probes (desfire.ts detectSpark2Implant, iso15693.ts    *)
(* detectSparkImplant), one transport command per step, and a run of       *)
(* detectChip, of its sensor probe or of one of its NDEF readers           *)
(***************************************************************************)
MaxNdefLength == 500
NdefChunkSize == 128
SparkBlocks == 8

\* The NDEF lengths a tag may announce: none, one byte, more than a chunk,
\* the longest the reader accepts, and one more
NdefLengths == {0, 1, NdefChunkSize + 2, MaxNdefLength, MaxNdefLength + 1}

\* The data a tag may answer a READ BINARY of chunkSize bytes with: a single
\* byte, what was asked, or more than was asked
ChunkAnswers(chunkSize) == {1, chunkSize, chunkSize + 1}

Min(a, b) == IF a < b THEN a ELSE b

NdefCall(fn) ==
    [fn |-> fn, pc |-> "start", commands |-> 0, ndefLength |-> 0,
     remaining |-> 0, read |-> 0, block |-> 0, found |-> FALSE]

InitNdef ==
    /\ rawData = Reading({"NfcA"}, \H00, NoBytes, NoBytes, NoNum, 7)
    /\ pc = "classic"
    /\ stepLog = <<>>
    /\ probeLog = <<>>
    /\ transport = "open"
    /\ fault = NoFault
    /\ loc = NoLoc
    /\ result = NoResult
    /\ scanInProgress = FALSE
    /\ hookState = "idle"
    /\ hookData = NoData
    /\ runs = NoRuns
    /\ techHeld = FALSE
    /\ isMounted = TRUE
    /\ asyncOps = NoOps
    /\ lateSetters = {}
    /\ sensor = NoSensor
    /\ \E fn \in {"detectSpark2Implant", "detectSparkImplant"} : io = NdefCall(fn)

NdefFrame == UNCHANGED <<detVars, hookVars, sensor>>

\* One more command went to the transport
Sent(s) == [s EXCEPT !.commands = @ + 1]

\* return {found: false}, also from the catch block
NotFound(s) == [s EXCEPT !.pc = "done", !.found = FALSE]

\* The bytes read are searched for the vivokey.co URL
Searched(s, matches) ==
    [s EXCEPT !.pc = "done", !.found = s.read > 0 /\ matches]

\* detectSpark2Implant: SELECT of the NDEF application
Spark2SelectApp ==
    /\ io.fn = "detectSpark2Implant"
    /\ io.pc = "start"
    /\ NdefFrame
    /\ \E answer \in {"success", "failure", "threw"} :
          io' = IF answer = "success" THEN [Sent(io) EXCEPT !.pc = "file"]
                ELSE NotFound(Sent(io))

\* SELECT of the NDEF file E104, then of the alternate file 0002
Spark2SelectFile ==
    /\ io.fn = "detectSpark2Implant"
    /\ io.pc \in {"file", "altFile"}
    /\ NdefFrame
    /\ \E answer \in {"success", "failure", "threw"} :
          io' = IF answer = "success" THEN [Sent(io) EXCEPT !.pc = "length"]
                ELSE IF answer = "failure" /\ io.pc = "file"
                THEN [Sent(io) EXCEPT !.pc = "altFile"]
                ELSE NotFound(Sent(io))

\* READ BINARY of the two length bytes: nothing, or more than MaxNdefLength
\* bytes, is not read
Spark2ReadLength ==
    /\ io.fn = "detectSpark2Implant"
    /\ io.pc = "length"
    /\ NdefFrame
    /\ \E answer \in {"success", "failure", "threw"}, ndefLength \in NdefLengths :
          io' = IF answer # "success" THEN NotFound(Sent(io))
                ELSE IF ndefLength = 0 \/ ndefLength > MaxNdefLength
                THEN NotFound([Sent(io) EXCEPT !.ndefLength = ndefLength])
                ELSE [Sent(io) EXCEPT !.pc = "read", !.ndefLength = ndefLength,
                                      !.remaining = ndefLength]

\* A chunk loop that asks again after an empty chunk
Spark2ReadChunk_AskingAgain ==
    /\ io.fn = "detectSpark2Implant"
    /\ io.pc = "read"
    /\ NdefFrame
    /\ \E answer \in {"data", "empty", "failure", "threw"},
          n \in ChunkAnswers(Min(io.remaining, NdefChunkSize)),
          matches \in BOOLEAN :
          io' = IF answer = "threw" THEN NotFound(Sent(io))
                ELSE IF answer = "failure" THEN Searched(Sent(io), matches)
                ELSE IF answer = "empty" THEN Sent(io)
                ELSE LET s == [Sent(io) EXCEPT !.read = @ + n,
                                               !.remaining = @ - n]
                     IN  IF s.remaining > 0 THEN s ELSE Searched(s, matches)

\* while (remaining > 0): one READ BINARY of min(remaining, 128) bytes; a
\* failed or empty chunk breaks the loop, a transport error goes to the catch
Spark2ReadChunk ==
    /\ io.fn = "detectSpark2Implant"
    /\ io.pc = "read"
    /\ NdefFrame
    /\ \E answer \in {"data", "empty", "failure", "threw"},
          n \in ChunkAnswers(Min(io.remaining, NdefChunkSize)),
          matches \in BOOLEAN :
          io' = IF answer = "threw" THEN NotFound(Sent(io))
                ELSE IF answer \in {"empty", "failure"}
                THEN Searched(Sent(io), matches)
                ELSE LET s == [Sent(io) EXCEPT !.read = @ + n,
                                               !.remaining = @ - n]
                     IN  IF s.remaining > 0 THEN s ELSE Searched(s, matches)

\* detectSparkImplant: READ SINGLE BLOCK of blocks 0..7; a transport error
\* breaks the loop
SparkReadBlock ==
    /\ io.fn = "detectSparkImplant"
    /\ io.pc \in {"start", "block"}
    /\ NdefFrame
    /\ \E answer \in {"data", "nothing", "threw"}, matches \in BOOLEAN :
          io' = IF answer = "threw" THEN Searched(Sent(io), matches)
                ELSE LET s == [Sent(io) EXCEPT
                                  !.pc = "block", !.block = @ + 1,
                                  !.read = IF answer = "data" THEN @ + 4 ELSE @]
                     IN  IF s.block < SparkBlocks THEN s
                         ELSE Searched(s, matches)

\* A step of detectChip itself
DetectChipStep == sensor = NoSensor /\ io = NoIo /\ Next

InitRun == Init \/ InitSensor \/ InitNdef

NextNdef ==
    \/ Spark2SelectApp
    \/ Spark2SelectFile
    \/ Spark2ReadLength
    \/ Spark2ReadChunk
    \/ SparkReadBlock

NextRun ==
    \/ DetectChipStep
    \/ NextSensor
    \/ NextNdef

SpecRun == InitRun /\ [][NextRun]_vars

\* Every command is answered or times out: a run is never left waiting
\* (every step of detectChip changes pc or transport)
FairSpecRun ==
    /\ SpecRun
    /\ WF_<<pc, transport>>(DetectChipStep)
    /\ WF_vars(NextSensor)
    /\ WF_vars(NextNdef)

(***************************************************************************)
(* Properties of the detection session (Spec)                              *)
(***************************************************************************)
Finished == pc \in {"done", "released"}

\* The waterfall as detectChip is written
WaterfallOrder ==
    <<"classic", "ntag", "isodep", "desfireVersion", "desfireAts",
      "javacardCplc", "javacardAts", "appletReprobe", "javacardAtsLastResort",
      "unknownA", "iso15693", "nfcB", "unknown">>

\* The waterfall as the specification lists it
ListedOrder ==
    <<"classic", "ntag", "isodep", "desfireVersion", "desfireAts",
      "javacardCplc", "javacardAts", "appletReprobe", "unknownA", "iso15693",
      "nfcB", "unknown">>

\* Step 3e is the JavaCard ATS-pattern check
ListedStep(step) ==
    IF step = "javacardAtsLastResort" THEN "javacardAts" ELSE step

Rank(order, step) == CHOOSE i \in 1..Len(order) : order[i] = step

InOrder(order, log) ==
    \A i, j \in 1..Len(log) : i < j => Rank(order, log[i]) < Rank(order, log[j])

ProbesFollowSteps(order) ==
    /\ \A k \in 1..Len(probeLog) :
          \E i \in 1..Len(stepLog) : stepLog[i] = probeLog[k]
    /\ \A k, l \in 1..Len(probeLog) :
          k < l => Rank(order, ListedStep(probeLog[k]))
                   <= Rank(order, ListedStep(probeLog[l]))

FirstTerminatingStepWins ==
    Finished /\ result.success => result.step = stepLog[Len(stepLog)]

\* C1 as stated: the steps are evaluated in the listed order (the JavaCard
\* ATS-pattern check before the generic applet re-probe), the result comes
\* from the first step that terminates, and every probe belongs to a step
\* already reached
C1_ListedOrder ==
    /\ InOrder(ListedOrder, [i \in 1..Len(stepLog) |-> ListedStep(stepLog[i])])
    /\ ProbesFollowSteps(ListedOrder)
    /\ FirstTerminatingStepWins

\* C1 amended: the same with the order detectChip has, where a last-resort
\* JavaCard ATS-pattern check follows the generic applet re-probe
C1_WaterfallOrder ==
    /\ InOrder(WaterfallOrder, stepLog)
    /\ \A k \in 1..Len(probeLog) :
          \E i \in 1..Len(stepLog) : stepLog[i] = probeLog[k]
    /\ \A k, l \in 1..Len(probeLog) :
          k < l => Rank(WaterfallOrder, probeLog[k])
                   <= Rank(WaterfallOrder, probeLog[l])
    /\ FirstTerminatingStepWins

C1_Witness ==
    /\ pc = "done"
    /\ result.step = "javacardAtsLastResort"
    /\ Len(probeLog) > 1

\* C2: with protocol-level probe failures only (no transport fault),
\* detectChip returns success with a well-formed Transponder
C2_NeverFailsWithoutTransportFault ==
    Finished /\ fault.kind = "none" =>
        /\ result.kind = "done"
        /\ result.success
        /\ result.transponder.type \in ChipType
        /\ result.transponder.confidence \in Confidence
        /\ result.transponder.family = getChipFamily(result.transponder.type)

C2_Witness ==
    /\ pc = "done"
    /\ fault.kind = "none"
    /\ result.success
    /\ result.step = "unknownA"
    /\ Len(probeLog) > 1

\* The probe that meets the fault: the one that raised it, or the one in
\* flight when the user cancelled
FaultProbe == IF fault.kind = "cancelled" THEN fault.at + 1 ELSE fault.at

\* C3: a transport fault is fatal: no probe after it, and the session does
\* not end with a Transponder
C3_TransportFaultIsFatal ==
    fault.kind \in {"tagLost", "timeout"} =>
        /\ Len(probeLog) <= FaultProbe
        /\ (Finished => ~result.success)

\* C4: after a cancellation the probe in flight is the last one, and the
\* transport is released
C4_CancelShortCircuits ==
    fault.kind = "cancelled" =>
        /\ Len(probeLog) <= FaultProbe
        /\ transport = "released"

\* C6: confidence follows the matching path: High for an exact version
\* match, Medium for ATS-pattern or range inference, Low for SAK-only or
\* technology-only inference (which orders exact above the others)
C6_ConfidenceBySpecificity ==
    Finished /\ result.success =>
        /\ result.via = "exact" => result.transponder.confidence = "high"
        /\ result.via \in {"range", "ats"} =>
               result.transponder.confidence = "medium"
        /\ result.via \in {"sak", "tech"} =>
               result.transponder.confidence = "low"

\* C7: an identity chosen by a table's range inference is not High
C7_RangeInferenceNotHigh ==
    Finished /\ result.success /\ result.via = "range" =>
        result.transponder.confidence # "high"

\* C8: an identity from the ATS / historical-byte / SAK-ATQA patterns is
\* Medium or lower
C8_AtsPathAtMostMedium ==
    Finished /\ result.success /\ result.via = "ats" =>
        result.transponder.confidence \in {"medium", "low"}

C8_Witness ==
    /\ pc = "done"
    /\ result.success
    /\ result.step = "desfireAts"
    /\ result.via = "ats"
    /\ Len(probeLog) > 0

\* C9: step 1 classifies as Classic no reading with the IsoDep technology
\* or the ISO-DEP bit in its SAK
C9_ClassicOnlyWithoutIsoDep ==
    Finished /\ result.success /\ result.step = "classic" =>
        /\ ~hasIsoDepTech
        /\ ~(rawData.sak # NoNum /\ hasIsoDepCapability(rawData.sak))

\* C10: the SAK-swap analyzer only adds its diagnostic: identity, family,
\* cloneability and confidence are those of the terminating step, anomaly
\* or not
C10_AnalyzerOnlyAugments ==
    Finished /\ result.success =>
        /\ result.transponder.type = result.base.type
        /\ result.transponder.family = getChipFamily(result.base.type)
        /\ result.transponder.isCloneable = CHIP_CLONEABILITY(result.base.type)
        /\ result.transponder.confidence = result.base.confidence

C10_Witness ==
    /\ pc = "done"
    /\ result.success
    /\ result.transponder.sakSwapInfo.hasSakSwap
    /\ result.step = "desfireVersion"

\* C11 as stated: every returned Transponder carries the result of the
\* SAK-swap analyzer run on its reading
C11_AnalyzerAlwaysRun ==
    Finished /\ result.success =>
        /\ result.transponder.sakSwapInfo # NoSwapInfo
        /\ result.transponder.sakSwapInfo.swapType # "absent"

\* C11 amended: the analyzer runs on every reading that has a SAK and the
\* Transponder carries its result; a reading without a SAK carries none
C11_AnalyzerRunOnSak ==
    Finished /\ result.success =>
        result.transponder.sakSwapInfo =
            IF rawData.sak # NoNum
            THEN detectSakSwap(rawData.sak, rawData.atqa,
                               rawData.historicalBytes)
            ELSE NoSwapInfo

C11_Witness ==
    /\ pc = "done"
    /\ result.success
    /\ rawData.sak # NoNum
    /\ result.step = "javacardCplc"
    /\ result.transponder.sakSwapInfo.swapType = "none"

\* C12: once a step has classified the chip (loc), no best-effort sub-probe,
\* failed or not, changes the identity, confidence or cloneability of the
\* returned Transponder or makes detectChip fail
C12_SubProbesNeverBlock ==
    Finished /\ loc.chipType # NoChip =>
        /\ result.success
        /\ result.transponder.type = loc.chipType
        /\ result.transponder.confidence = loc.confidence
        /\ result.transponder.isCloneable = CHIP_CLONEABILITY(loc.chipType)

\* The implant-name probe is the second command of the session and is the
\* one that loses the tag
C12_Witness ==
    /\ pc = "done"
    /\ result.success
    /\ result.step = "ntag"
    /\ loc.chipType = "NTAG216"
    /\ Len(probeLog) = 2
    /\ fault = [kind |-> "tagLost", at |-> 2]
    /\ result.transponder.implantName = NoName

\* The Classic variant and capacity that a capacity hint stands for
\* (parseMifareClassic reports 320, 1024 or 4096)
VariantOfHint(size) ==
    CASE size = 4096 -> <<"MIFARE_CLASSIC_4K", 4096>>
      [] size = 1024 -> <<"MIFARE_CLASSIC_1K", 1024>>
      [] size = 320 -> <<"MIFARE_CLASSIC_MINI", 320>>

\* C22: when the platform reported a MIFARE Classic capacity hint, the
\* Classic variant and its capacity follow the hint, whatever the SAK
C22_HintDecidesClassic ==
    /\ Finished
    /\ result.success
    /\ result.transponder.type \in ClassicTypes
    /\ rawData.mcSize # NoNum
    => /\ result.transponder.type = VariantOfHint(rawData.mcSize)[1]
       /\ result.transponder.memorySize = VariantOfHint(rawData.mcSize)[2]

\* SAK 0x18 alone says 4K, the hint says 1K
C22_Witness ==
    /\ Finished
    /\ result.success
    /\ rawData.sak = \H18
    /\ rawData.mcSize = 1024
    /\ result.transponder.type = "MIFARE_CLASSIC_1K"
    /\ result.transponder.memorySize = 1024

\* C23: a recognized MIFARE Classic SAK, no ISO-DEP capability and no
\* capacity hint give the Classic variant of that SAK at high confidence
\* with the variant's nominal capacity; SAK 0x08 gives 1K, high, 1024 bytes
C23_ClassicVariantOfSak ==
    /\ Finished
    /\ rawData.sak # NoNum
    /\ isMifareClassicSak(rawData.sak)
    /\ ~hasIsoDepTech
    /\ ~hasIsoDepCapability(rawData.sak)
    /\ rawData.mcSize = NoNum
    => /\ result.success
       /\ result.transponder.type = detectMifareClassic(rawData.sak).chipType
       /\ result.transponder.confidence = "high"
       /\ result.transponder.memorySize =
             CHIP_MEMORY_SIZES(detectMifareClassic(rawData.sak).chipType)
       /\ rawData.sak = \H08 =>
             /\ result.transponder.type = "MIFARE_CLASSIC_1K"
             /\ result.transponder.memorySize = 1024

\* Step 2 sent GET_VERSION and detectNtag did not identify a chip
VersionQueryFailed ==
    /\ pc = "ntag"
    /\ Len(probeLog') > Len(probeLog)
    /\ pc' # "ntagImplant"

\* C24: when GET_VERSION fails outright in the NTAG / Ultralight path, the
\* result is the original Ultralight at medium confidence if the
\* MifareUltralight technology is listed and NTAG_UNKNOWN at low confidence
\* otherwise; never high confidence
C24_FailedVersionQuery ==
    [][VersionQueryFailed =>
         /\ pc' = "done"
         /\ result'.success
         /\ result'.transponder.confidence # "high"
         /\ IF HasTech(rawData.techTypes, "MifareUltralight")
            THEN /\ result'.transponder.type = "ULTRALIGHT"
                 /\ result'.transponder.confidence = "medium"
            ELSE /\ result'.transponder.type = "NTAG_UNKNOWN"
                 /\ result'.transponder.confidence = "low"]_vars

C24_Witness ==
    /\ pc = "done"
    /\ result.success
    /\ result.step = "ntag"
    /\ loc = NoLoc
    /\ probeLog = <<"ntag">>
    /\ HasTech(rawData.techTypes, "MifareUltralight")
    /\ result.transponder.type = "ULTRALIGHT"
    /\ result.transponder.confidence = "medium"

\* The Transponder of a finished session as the result screen hands it to
\* the matcher (the UID has rawData.uidLen bytes)
ScannedChip ==
    [type |-> result.transponder.type,
     family |-> result.transponder.family,
     isCloneable |-> result.transponder.isCloneable,
     rawData |-> [uid |-> BytesToHex([i \in 1..rawData.uidLen |-> i])]]

\* C31: the cloneability table has an entry for every chip identity, and the
\* cloneability (boolean and note) of every Transponder and of its
\* MatchResult is the table entry of its chip identity, whichever step of the
\* waterfall produced it
C31_CloneabilityFromTable ==
    /\ \A type \in ChipType : CHIP_CLONEABILITY(type) \in BOOLEAN
    /\ Finished /\ result.success =>
          LET chip == result.transponder
              matchResult == matchChipToProducts(ScannedChip)
          IN  /\ chip.type \in ChipType
              /\ chip.isCloneable = CHIP_CLONEABILITY(chip.type)
              /\ chip.cloneabilityNote = CHIP_CLONEABILITY_NOTE(chip.type)
              /\ matchResult.isCloneable = CHIP_CLONEABILITY(chip.type)
              /\ matchResult.cloneabilityNote = CHIP_CLONEABILITY_NOTE(chip.type)

\* An NTAG of unknown kind found at low confidence is still cloneable
C31_Witness ==
    /\ Finished
    /\ result.success
    /\ result.transponder.type = "NTAG_UNKNOWN"
    /\ result.transponder.confidence = "low"
    /\ result.transponder.isCloneable
    /\ result.transponder.cloneabilityNote = "May require verification"

(***************************************************************************)
(* Properties of the sensor probe (SpecSensor)                             *)
(***************************************************************************)
\* The scheduler runs every continuation of the async function: a pending
\* step of the probe is eventually taken
FairSpecSensor == SpecSensor /\ WF_vars(NextSensor)

EhTimedOut ==
    /\ sensor.ehOk = "false"
    /\ ~sensor.loadOk
    /\ sensor.polls = CeilDiv(sensor.timeoutMs, pollIntervalMs)

EhPollingBounded ==
    /\ sensor.polls <= CeilDiv(sensor.timeoutMs, pollIntervalMs)
    /\ sensor.waitedMs = sensor.polls * pollIntervalMs
    /\ sensor.ehOk # "pending" /\ ~sensor.loadOk =>
          /\ sensor.ehOk = "false"
          /\ sensor.pc = "done"
          /\ ~sensor.enableSent /\ ~sensor.i2cUsed
          /\ sensor.result = IF sensor.thermoResult.detected
                             THEN sensor.thermoResult ELSE NotDetected
          /\ ~sensor.result.temperature.present

\* C13: enableEnergyHarvesting polls the ready status every 100 ms at most
\* ceil(timeout / 100) times and the probe then terminates; when the ready
\* bit was not seen the handshake answers false and the probe returns a
\* result (not detected on the probing path, no temperature on the AFI
\* path) instead of throwing
C13_EhPollingBounded == [] EhPollingBounded /\ <>(sensor.pc = "done")

C13_Witness == EhTimedOut /\ sensor.timeoutMs = 250 /\ sensor.polls = 3
               /\ sensor.pc = "done" /\ sensor.result = NotDetected

\* C14: the enable write is sent only after the trigger write and after a
\* poll saw the ready bit, never once the handshake has answered false
\* (timeout or tag lost); the I2C bus is used only after the handshake
\* answered true, its enable write sent
C14_EnableAfterReady ==
    /\ sensor.loadOk => sensor.triggerSent
    /\ sensor.pc = "ehEnable" => sensor.triggerSent /\ sensor.loadOk
    /\ sensor.enableSent => sensor.triggerSent /\ sensor.loadOk
    /\ sensor.ehOk = "false" => ~sensor.enableSent /\ ~sensor.i2cUsed
    /\ sensor.i2cUsed => sensor.ehOk = "true" /\ sensor.enableSent
    /\ sensor.pc \in {"identify", "temp"} => sensor.ehOk = "true"

C14_Witness == sensor.pc = "done" /\ sensor.enableSent /\ sensor.i2cUsed
               /\ sensor.result.implantName = "Temptress"
               /\ sensor.result.temperature.present

\* C15: a vendor write is not failed for the transport exception alone, and
\* its caller goes on as after a successful write only once a status
\* read-back has confirmed it
C15_WritesConfirmedByReadBack ==
    /\ sensor.write.readBack = "confirmed" => sensor.write.accepted
    /\ sensor.write.accepted => sensor.write.readBack = "confirmed"

\* C16: no temperature is reported when the handshake never saw the ready
\* bit, and a reported temperature never comes from a raw value of 0x0000
\* or 0xFFFF
C16_SentinelNeverReported ==
    /\ ~sensor.loadOk => ~sensor.result.temperature.present
                          /\ ~sensor.result.temperature2.present
    /\ \A i \in DOMAIN sensor.readings :
          sensor.readings[i].present => ~Suspicious(sensor.readings[i].raw)

\* The I2C probe ran over the three addresses and has returned
ProbedAllAddresses == sensor.pc = "done" /\ Len(sensor.sensors) = Len(ProbeAddresses)

\* C38: an address where no sensor acknowledged the probe is identified as
\* null, and a probe that no sensor acknowledged at 0x48, 0x49 or 0x4A
\* returns detected = false without an implant name
C38_SensorOnlyIfResponded ==
    /\ \A k \in 1..Len(sensor.sensors) :
          ~sensor.responded[k] => sensor.sensors[k] = NoSensorType
    /\ ProbedAllAddresses /\ (\A k \in 1..3 : ~sensor.responded[k]) =>
          /\ ~sensor.result.detected
          /\ sensor.result.implantName = NoName

(***************************************************************************)
(* Properties of the probe loops (FairSpecRun)                             *)
(***************************************************************************)
\* The most commands one waterfall step of detectChip sends: the CPLC
\* probe with its card manager, CPLC, applet and payment network selects
MaxStepCommands == 1 + 1 + 5 + Len(NetworkAids)

\* The positions of detectChip, in an order no step goes back in
PcOrder ==
    <<"classic", "ntag", "ntagImplant", "isodep", "desfireApps", "spark2",
      "desfireAts", "javacard", "jcFallback", "jcStorage", "jcAtsLastResort",
      "unknownA", "iso15693", "sensor", "spark1", "nfcB", "unknown", "done",
      "released">>

PcRank(p) == CHOOSE i \in 1..Len(PcOrder) : PcOrder[i] = p

DetectChipRun == sensor = NoSensor /\ io = NoIo

\* detectChip evaluates no waterfall step twice and sends a bounded number
\* of commands
StepsOnce ==
    DetectChipRun =>
        /\ \A i, j \in 1..Len(stepLog) : i # j => stepLog[i] # stepLog[j]
        /\ Len(probeLog) <= Len(WaterfallOrder) * MaxStepCommands

\* Every step of detectChip moves it forward in its code; the one step that
\* does not is the cancellation, which happens once
WaterfallProgress ==
    DetectChipRun =>
        \/ PcRank(pc') > PcRank(pc)
        \/ pc' = pc /\ transport # "released" /\ transport' = "released"

\* The counters of the loops stay under their caps
LoopsBounded ==
    /\ sensor # NoSensor =>
          /\ sensor.polls <= CeilDiv(sensor.timeoutMs, pollIntervalMs)
          /\ sensor.attempt < maxRetries
          /\ Len(sensor.sensors) <= Len(ProbeAddresses)
          /\ Len(sensor.readings) <= Len(sensor.toRead)
          /\ Len(sensor.toRead) <= 2
    /\ io.fn = "detectSpark2Implant" =>
          /\ io.commands <= 4 + io.ndefLength
          /\ io.pc = "read" =>
                /\ io.remaining > 0
                /\ io.ndefLength <= MaxNdefLength
                /\ io.remaining = io.ndefLength - io.read
    /\ io.fn = "detectSparkImplant" =>
          /\ io.block <= io.commands
          /\ io.commands <= SparkBlocks

\* A chunk that does not end the loop leaves less to read
ChunkProgress ==
    io.fn = "detectSpark2Implant" /\ io.pc = "read" /\ io'.pc = "read" =>
        /\ io'.remaining < io.remaining
        /\ io'.commands = io.commands + 1

\* The run has returned
RunReturned ==
    IF sensor # NoSensor THEN sensor.pc = "done"
    ELSE IF io # NoIo THEN io.pc = "done"
    ELSE Finished

Applied(fn) == io.fn = fn /\ io.applied

\* The status the codec documents as success with more data available
MoreData(parsed) == parsed.sw1 = \H91 /\ parsed.sw2 = \HAF

\* C17: detectDesfire sends the continuation request exactly when the
\* status of the first frame says more data: never after a terminal success
\* or a failure status, always after a more-data status
C17_ContinuationIffMoreData ==
    Applied("detectDesfire") /\ ~io.input.r1.threw =>
        (io.output.continued <=> MoreData(parseApduResponse(io.input.r1.bytes)))

\* C18: for a response of two bytes or more the payload is the response
\* without its last two bytes and success means a status high byte of 0x90
\* or 0x91; 91 AF is a success with an empty payload that shows the
\* continuation status, 6A 82 is a failure
C18_ParseApduResponse ==
    Applied("parseApduResponse") /\ Len(io.input.response) >= 2 =>
        LET n == Len(io.input.response) IN
        /\ Len(io.output.data) = n - 2
        /\ \A i \in 1..(n - 2) : io.output.data[i] = io.input.response[i]
        /\ io.output.sw1 = io.input.response[n - 1] /\ io.output.sw2 = io.input.response[n]
        /\ io.output.isSuccess <=> io.input.response[n - 1] \in {\H90, \H91}
        /\ io.input.response = <<\H91, \HAF>> =>
              io.output.isSuccess /\ io.output.data = <<>> /\ MoreData(io.output)
        /\ io.input.response = <<\H6A, \H82>> => ~io.output.isSuccess

C18_Witness == Applied("parseApduResponse") /\ io.input.response = <<\H04, \H91, \HAF>>
               /\ io.output.isSuccess /\ io.output.data = <<\H04>>
               /\ io.output.sw2 = \HAF

\* A first frame that detectDesfire reads as an NXP chip of the DNA family
DnaVersionResponse(r1) ==
    /\ ~r1.threw
    /\ Len(r1.bytes) >= 9
    /\ r1.bytes[Len(r1.bytes) - 1] = \H91
    /\ r1.bytes[1] = \H04
    /\ r1.bytes[2] = \H04

WithStorage(r1, storage) == Reply([r1.bytes EXCEPT ![6] = storage])

BothSignals ==
    /\ ~io.input.tag.threw /\ io.input.tag.present /\ Len(io.input.tag.id) > 0
    /\ parseIso15693Uid(io.input.tag.id).icManufacturer = NXP_IC_MFG_CODE
    /\ ~io.input.sysInfo.threw
    /\ io.input.sysInfo.icReference # NoNum
    /\ io.input.sysInfo.blockCount # NoNum

\* C20: when the system info of an NXP chip has both an IC reference and a
\* block count, the identity is the one the memory size selects, also where
\* the IC reference names another variant
C20_MemorySizeDecides ==
    Applied("detectIso15693") /\ BothSignals =>
        LET sysInfo == io.input.sysInfo
            fromMemory == identifySlixFromMemory(sysInfo.blockCount,
                                                 sysInfo.blockSize)
        IN  /\ io.output.success
            /\ io.output.chipType =
                 IF sysInfo.icReference # 0
                 THEN BlockCountOverride(sysInfo.blockCount)
                 ELSE IF fromMemory # NoChip THEN fromMemory
                 ELSE "ISO15693_UNKNOWN"

C20_Witness == Applied("detectIso15693") /\ BothSignals
               /\ io.input.sysInfo.icReference = \H01
               /\ io.input.sysInfo.blockCount = 80
               /\ getIcodeTypeFromIcReference(\H01)[1] = "SLIX"
               /\ io.output.chipType = "SLIX2"

\* System info that came back without IC reference (or with IC reference
\* 0) but with block count and block size
MemoryOnly ==
    /\ ~io.input.tag.threw
    /\ ~io.input.sysInfo.threw
    /\ io.input.sysInfo.icReference \in {NoNum, 0}
    /\ io.input.sysInfo.blockCount # NoNum
    /\ io.input.sysInfo.blockSize # NoNum

\* More blocks and more bytes than the largest SLIX band
BoostRange(sysInfo) ==
    sysInfo.blockCount > 100 /\ sysInfo.blockCount * sysInfo.blockSize > 400

SlixBands == {"SLIX_L", "SLIX", "SLIX_S", "SLIX2", "NTAG5_BOOST"}

\* C21 as stated: without IC reference the memory size alone selects the
\* variant, and a block count in the NTAG5 Boost range gives NTAG5 Boost,
\* never ISO15693 Unknown
C21_MemoryAloneSelects ==
    Applied("detectIso15693") /\ MemoryOnly =>
        /\ io.output.chipType \in SlixBands
        /\ BoostRange(io.input.sysInfo) => io.output.chipType = "NTAG5_BOOST"

ManufacturerNxpOrUnknown ==
    \/ ~io.input.tag.present
    \/ Len(io.input.tag.id) = 0
    \/ parseIso15693Uid(io.input.tag.id).icManufacturer
          \in {NXP_IC_MFG_CODE, NoNum}

\* C21 (amended): the same for a tag whose UID names NXP or no manufacturer;
\* a tag of another manufacturer stays ISO15693 Unknown
C21_MemorySelectsForNxp ==
    Applied("detectIso15693") /\ MemoryOnly =>
        IF ManufacturerNxpOrUnknown
        THEN /\ io.output.success
             /\ io.output.via = "memory"
             /\ io.output.chipType \in SlixBands
             /\ BoostRange(io.input.sysInfo) =>
                   io.output.chipType = "NTAG5_BOOST"
             /\ io.output.chipType = "NTAG5_BOOST" =>
                   BoostRange(io.input.sysInfo)
        ELSE io.output.chipType = "ISO15693_UNKNOWN"

C21_Witness == Applied("detectIso15693") /\ MemoryOnly
               /\ io.input.tag = Tag(MsbUid(\H04, \H01))
               /\ io.input.sysInfo.icReference = NoNum
               /\ io.input.sysInfo.blockCount = 200
               /\ io.input.sysInfo.blockSize = 4
               /\ io.output.chipType = "NTAG5_BOOST"

\* The SELECT of an applet succeeded
Selected(aid) == io.input.sel[aid] = "ok"

ClassifiedJcop4 ==
    /\ io.output.jcResult.success
    /\ io.output.jcResult.chipType = "JCOP4"

WithoutPayment(sel) ==
    [a \in AllAids |->
        IF a = "ppse" \/ a \in {NetworkAids[i] : i \in 1..5}
        THEN (IF sel[a] = "ok" THEN "no" ELSE sel[a])
        ELSE sel[a]]

PaymentFound ==
    \E i \in 1..Len(io.output.jcResult.installedApplets) :
        io.output.jcResult.installedApplets[i]
            \in PaymentNetworks \cup {"Payment (PPSE)"}

PaymentLabels ==
    {PaymentCardName(n) : n \in PaymentNetworks} \cup {"Payment Card"}

\* C26: a card on which a payment applet was found is labelled a payment
\* card, never Apex or flexSecure, whatever else is installed, and its
\* confidence is the one the same card gets without the payment applets
C26_PaymentLabelOnly ==
    Applied("detectJavaCard") /\ PaymentFound =>
        /\ io.output.implantName \in PaymentLabels
        /\ io.output.implantName \notin {"Apex", "flexSecure"}
        /\ io.output.confidence =
             JavaCardIdentity(io.input.cm, io.input.cplcResp,
                              WithoutPayment(io.input.sel)).confidence

\* C27: conversionRecommended is true exactly when exactMatches and
\* cloneTargets are both empty or the chip is not cloneable; a cloneable chip
\* with an exact match gets FALSE, a non-cloneable chip without catalog
\* matches gets empty lists and TRUE
C27_ConversionRecommended ==
    Applied("matchChipToProducts") =>
        LET chip == io.input.chip
            out  == io.output
            none == Len(out.exactMatches) = 0 /\ Len(out.cloneTargets) = 0
        IN  /\ out.conversionRecommended <=> (none \/ ~chip.isCloneable)
            /\ chip.isCloneable /\ Len(out.exactMatches) > 0
                 => ~out.conversionRecommended
            /\ ~chip.isCloneable /\ Len(getChipProductMap(chip.type)) = 0
                 => none /\ out.conversionRecommended

\* A DESFire EV1 has exact matches and cannot be cloned
C27_Witness ==
    /\ Applied("matchChipToProducts")
    /\ io.input.chip.type = "DESFIRE_EV1"
    /\ Len(io.output.exactMatches) > 0
    /\ io.output.conversionRecommended

\* The UID of the scanned chip has four bytes
FourByteUid(chip) == UidHexLength(chip.rawData.uid) = 2 * 4

\* C28: every product returned as a clone target accepts cloned data, the
\* source chip is cloneable, and a product that needs a 4-byte UID is
\* offered only to a source with a 4-byte UID; for every matcher operation
\* that returns clone targets
C28_CloneTargetsFit ==
    Applied("matchChipToProducts") \/ Applied("getCloneTargetsForChip") =>
        \A i \in 1..Len(io.output.cloneTargets) :
            LET product == io.output.cloneTargets[i]
            IN  /\ product.canReceiveClone
                /\ CHIP_CLONEABILITY(io.input.chip.type)
                /\ product.name \in FourByteUidNames
                     => FourByteUid(io.input.chip)

\* C29: familyMatches shares no product with exactMatches or cloneTargets,
\* and each of its products is compatible with a chip of the scanned chip's
\* family
C29_FamilyMatchesApart ==
    Applied("matchChipToProducts") =>
        LET out == io.output
        IN  /\ ProductIds(out.familyMatches)
                  \cap (ProductIds(out.exactMatches)
                        \cup ProductIds(out.cloneTargets)) = {}
            /\ \A i \in 1..Len(out.familyMatches) :
                  \E j \in 1..Len(out.familyMatches[i].compatibleChips) :
                      getChipFamily(out.familyMatches[i].compatibleChips[j])
                          = io.input.chip.family

\* An NTAG 424 DNA matches the Spark 2 and has the other NTAG products as
\* family matches
C29_Witness ==
    /\ Applied("matchChipToProducts")
    /\ io.input.chip.type = "NTAG424_DNA"
    /\ ProductIds(io.output.exactMatches) = {"spark2"}
    /\ "xnt" \in ProductIds(io.output.familyMatches)

\* C30: getChipFamily answers every chip identity with one ChipFamily, the
\* one every Transponder of that identity carries
C30_FamilyTotal ==
    Applied("getChipFamily") =>
        /\ io.output \in ChipFamily
        /\ \A chip \in ScannedChips :
              chip.type = io.input.type => chip.family = io.output

C30_Witness ==
    /\ Applied("getChipFamily")
    /\ io.input.type = "ISO14443A_UNKNOWN"
    /\ io.output = "UNKNOWN"

(***************************************************************************)
(* Properties of the hook (SpecScan)                                       *)
(***************************************************************************)
\* A run whose detectChip is running, or whose request has not been cancelled
ActiveSession(run) ==
    run.phase = "detect" \/ (run.phase = "request" /\ ~run.cancelled)

\* C5: at most one tag session is active, and no run begins a session
\* while an earlier run is still in flight
C5_SingleSession ==
    /\ Cardinality({i \in 1..Len(runs) : ActiveSession(runs[i])}) <= 1
    /\ \A i, j \in 1..Len(runs) :
          i < j /\ InSession(runs[j]) => ~InFlight(runs[i])

\* A run inside its scanWithDetection call
Calling(run) == run.phase \in {"request", "detect", "cleanup"}

\* C32: a scanWithDetection call returns with the technology request
\* released, whatever it returns (a scan error, no tag, a detection, a tag
\* whose detection threw), and the request is held only while some call has
\* not yet returned
C32_ReleasedOnReturn ==
    [][/\ \A i \in 1..Len(runs) :
             runs[i].phase = "cleanup" /\ runs'[i].phase = "settle" => ~techHeld'
       /\ techHeld' => \E i \in 1..Len(runs') : Calling(runs'[i])]_vars

\* A call whose detection callback threw has returned, nothing is held
C32_Witness ==
    \E i \in 1..Len(runs) :
        /\ runs[i].phase = "settle"
        /\ runs[i].out = "undefined"
        /\ ~techHeld

\* A step of run i
Advances(i) == runs[i].phase # runs'[i].phase

\* C33: once a cancelScan call has completed, no step of a run that was in
\* flight when it was issued moves the hook state anywhere but to "idle", or
\* writes tag, transponder or error
C33_CancelledScanStaysIdle ==
    [][\A i \in 1..Len(runs) :
          runs[i].hookCancel = "completed" /\ Advances(i) =>
              /\ hookState' \in {hookState, "idle"}
              /\ hookData' = hookData]_vars

\* C34: the state and the data of the hook agree: "success" comes with a
\* tag, and an error is held only in "error"
C34_StateMatchesData ==
    /\ hookState = "success" => hookData.tag # "null"
    /\ hookData.error # "null" => hookState = "error"

\* C36: the step that finishes a startScan call leaves the in-progress guard
\* clear, whichever way the call ends, and the guard is clear whenever every
\* call has finished: the next startScan is accepted
C36_GuardCleared ==
    [][/\ \A i \in 1..Len(runs) :
             InFlight(runs[i]) /\ ~InFlight(runs'[i]) => ~scanInProgress'
       /\ (\A i \in 1..Len(runs') : ~InFlight(runs'[i])) => ~scanInProgress']_vars

\* A scan that came back to an unmounted component has cleared the guard
C36_Witness ==
    /\ ~isMounted
    /\ Len(runs) = 1
    /\ ~InFlight(runs[1])
    /\ hookState = "scanning"
    /\ ~scanInProgress

\* What scanWithDetection returns for a tag whose detection failed or threw
DetectionFailed(run) == run.out \in {"null", "undefined"}

\* C37: a detection that throws or reports a failure after the tag was read
\* makes scanWithDetection return the tag without an error, and the run then
\* puts a mounted hook in "success" with the tag and transponder = null,
\* writing no error
C37_TagSurvivesDetection ==
    [][\A i \in 1..Len(runs) :
          /\ runs[i].phase = "detect" /\ Advances(i) =>
                 runs'[i].out \in {"transponder", "null", "undefined"}
          /\ runs[i].phase = "settle" /\ DetectionFailed(runs[i])
                /\ Advances(i) /\ isMounted =>
                 /\ hookState' = "success"
                 /\ hookData'.tag = "tag"
                 /\ hookData'.transponder = "null"
                 /\ hookData'.error = hookData.error]_vars

\* The hook shows a tag without a transponder and without an error
C37_Witness ==
    /\ hookState = "success"
    /\ hookData = [tag |-> "tag", transponder |-> "null", error |-> "null"]
    /\ Len(runs) = 1
    /\ ~InFlight(runs[1])

(***************************************************************************)
(* Properties of the mounted hook (SpecMount)                              *)
(***************************************************************************)
\* C35: no state setter is invoked once the component has unmounted
C35_NoSetterAfterUnmount == lateSetters = {}

====
